---- MODULE Spec2Model ----
(***************************************************************************)
(* State-machine models of the lab scripts: the lab6 and lab5 master       *)
(* scripts, the coverage loaders, the lab6 analysis / parallel /           *)
(* sequential scripts and the lab78 Bandit pipeline.  The scripts are      *)
(* independent programs; each has its own specification over its own       *)
(* variables, the other scripts' variables staying at their idle values.   *)
(***************************************************************************)
EXTENDS Integers, Sequences, FiniteSets, TLC

VARIABLES
    \* lab6 master-script.py
    pc6, platform_win32, algorithms_exists, venv_exists, helper_scripts,
    started, commands, main_return,
    \* lab5 master-script.py
    pc5, present_scripts, script_index, runs, success_count, summary,
    \* lab5 load_coverage_data (coverage-comparison.py, compare-test-suites.py)
    pcLC, lc_module, suite_a_file, suite_b_file, suite_a_data, suite_b_data,
    \* lab6 analysis-script.py
    sequential_results_json, sequential_time_json, parallel_results_json,
    pcAn, sequential_data, an_parallel_results, report,
    \* lab6 parallel-test-script.py
    pcPar, machine_load, tseq, config_index, results,
    \* lab6 sequential-test-script.py
    pcSeq, seq_iterations, outputs, execution_times, test_results, test_order,
    failing_tests, flaky_tests,
    \* lab78 run_bandit_analysis.py: parse_bandit_results
    pcBP, output_file, finding_index, metrics, parse_result,
    \* lab78 run_bandit_analysis.py: main
    pcBM, bandit_installed, repo_exists, repo_index, repo_commits, commit_index,
    results_csv, processed,
    \* lab78 analyze_results.py: load_repository_results, answer_rq1, answer_rq2
    pcRQ, rq_rows, df,
    \* lab78 unique_cwes column: run_bandit_analysis.py writes, analyze_results.py reads
    pcCsv, cwe_lists, csv_column, cwe_frame, cwe_loaded,
    \* lab5 analyze_coverage (compare-test-suites.py, improved-coverage.py)
    pcAC, ac_module, cov_data, coverage_result,
    \* lab5 improved-coverage.py: run_tests_and_record_coverage, load_coverage_data
    pcCov, cov_env, coverage_json, suite_a_json, cov_trace, cov_loaded, cov_analysis,
    \* lab78 analyze_results.py: main
    pcAR, ar_csv, ar_index, repositories_data, repositories_summaries, rq1_summary_json, rq2_summary_json, rq3_summary_json, consolidated_report_json,
    \* lab5 updated-test-generation.py: main, generate_tests_for_file
    pcTG, low_coverage_files_json, tg_env, tg_index, pynguin_successes, tg_stdout, pynguin_invocations, exit_status, elapsed, child, signals, polls, gen_returns, pynguin_tests, master_written,
    \* lab78 run_bandit_analysis.py: the git repositories
    git_branch, git_head, git_log,
    \* lab78 run_bandit_analysis.py: get_last_100_non_merge_commits
    pcGL, log_commits, git_log_stdout, gl_return,
    \* lab6 parallel-test-script.py: run_parallel_tests
    pcRP, rp_config, rp_executions, rp_result,
    \* lab6 sequential-test-script.py: verify_clean_test_suite
    pcVC, pytest_ini, vc_stdout, vc_failing_tests, vc_return, ini_writes,
    \* lab5 improved-coverage.py: plot_coverage and the end of run_tests_and_record_coverage
    pcPC, suite_name, file_coverage, not_fully_covered_files, sorted_files, low_coverage_files_out, low_written,
    \* lab6 analysis-script.py: analyze_parallel_failures and categorize_test_failures
    pcCF, cf_failure_lists, failure_analysis, cf_index, categorized_failures,
    \* lab6 sequential-test-script.py: the time measurements of __main__
    pcTS, ts_nested, ts_simple

vM6 == <<pc6, platform_win32, algorithms_exists, venv_exists, helper_scripts,
         started, commands, main_return>>

vM5 == <<pc5, present_scripts, script_index, runs, success_count, summary>>

vLC == <<pcLC, lc_module, suite_a_file, suite_b_file, suite_a_data, suite_b_data>>

\* the JSON files the lab6 scripts exchange in the working directory
vDisk == <<sequential_results_json, sequential_time_json, parallel_results_json>>

vAn == <<pcAn, sequential_data, an_parallel_results, report>>

vPar == <<pcPar, machine_load, tseq, config_index, results>>

vSeq == <<pcSeq, seq_iterations, outputs, execution_times, test_results, test_order,
          failing_tests, flaky_tests>>

vBP == <<pcBP, output_file, finding_index, metrics, parse_result>>

vBM == <<pcBM, bandit_installed, repo_exists, repo_index, repo_commits, commit_index,
         results_csv, processed>>

vRQ == <<pcRQ, rq_rows, df>>

vCsv == <<pcCsv, cwe_lists, csv_column, cwe_frame, cwe_loaded>>

vAC == <<pcAC, ac_module, cov_data, coverage_result>>

vCov == <<pcCov, cov_env, coverage_json, suite_a_json, cov_trace, cov_loaded, cov_analysis>>

vAR == <<pcAR, ar_csv, ar_index, repositories_data, repositories_summaries, rq1_summary_json, rq2_summary_json, rq3_summary_json, consolidated_report_json>>

vTG == <<pcTG, low_coverage_files_json, tg_env, tg_index, pynguin_successes, tg_stdout, pynguin_invocations, exit_status, elapsed, child, signals, polls, gen_returns, pynguin_tests, master_written>>

vGit == <<git_branch, git_head, git_log>>

vGL == <<pcGL, log_commits, git_log_stdout, gl_return>>

vRP == <<pcRP, rp_config, rp_executions, rp_result>>

vVC == <<pcVC, pytest_ini, vc_stdout, vc_failing_tests, vc_return, ini_writes>>

vPC == <<pcPC, suite_name, file_coverage, not_fully_covered_files, sorted_files, low_coverage_files_out, low_written>>

vCF == <<pcCF, cf_failure_lists, failure_analysis, cf_index, categorized_failures>>

vTS == <<pcTS, ts_nested, ts_simple>>

vars == <<vM6, vM5, vLC, vDisk, vAn, vPar, vSeq, vBP, vBM, vRQ, vCsv, vAC, vCov, vAR, vTG, vGit, vGL, vRP, vVC, vPC, vCF, vTS>>

\* the variables of the lab6 scripts
vLab6 == <<vDisk, vAn, vPar, vSeq>>

\* the variables of the other scripts
OtherThanM6 == <<vM5, vLC, vLab6, vBP, vBM, vRQ, vCsv, vAC, vCov, vAR, vTG, vGit, vGL, vRP, vVC, vPC, vCF, vTS>>

OtherThanM5 == <<vM6, vLC, vLab6, vBP, vBM, vRQ, vCsv, vAC, vCov, vAR, vTG, vGit, vGL, vRP, vVC, vPC, vCF, vTS>>

OtherThanLC == <<vM6, vM5, vLab6, vBP, vBM, vRQ, vCsv, vAC, vCov, vAR, vTG, vGit, vGL, vRP, vVC, vPC, vCF, vTS>>

OtherThanLab6 == <<vM6, vM5, vLC, vBP, vBM, vRQ, vCsv, vAC, vCov, vAR, vTG, vGit, vGL, vRP, vVC, vPC, vCF, vTS>>

OtherThanBP == <<vM6, vM5, vLC, vLab6, vBM, vRQ, vCsv, vAC, vCov, vAR, vTG, vGit, vGL, vRP, vVC, vPC, vCF, vTS>>

OtherThanRQ == <<vM6, vM5, vLC, vLab6, vBP, vBM, vCsv, vAC, vCov, vAR, vTG, vGit, vGL, vRP, vVC, vPC, vCF, vTS>>

OtherThanCsv == <<vM6, vM5, vLC, vLab6, vBP, vBM, vRQ, vAC, vCov, vAR, vTG, vGit, vGL, vRP, vVC, vPC, vCF, vTS>>

OtherThanAC == <<vM6, vM5, vLC, vLab6, vBP, vBM, vRQ, vCsv, vCov, vAR, vTG, vGit, vGL, vRP, vVC, vPC, vCF, vTS>>

OtherThanCov == <<vM6, vM5, vLC, vLab6, vBP, vBM, vRQ, vCsv, vAC, vAR, vTG, vGit, vGL, vRP, vVC, vPC, vCF, vTS>>

OtherThanAR == <<vM6, vM5, vLC, vLab6, vBP, vBM, vRQ, vCsv, vAC, vCov, vTG, vGit, vGL, vRP, vVC, vPC, vCF, vTS>>

OtherThanTG == <<vM6, vM5, vLC, vLab6, vBP, vBM, vRQ, vCsv, vAC, vCov, vAR, vGit, vGL, vRP, vVC, vPC, vCF, vTS>>

OtherThanGit == <<vM6, vM5, vLC, vLab6, vBP, vBM, vRQ, vCsv, vAC, vCov, vAR, vTG, vGL, vRP, vVC, vPC, vCF, vTS>>

OtherThanGL == <<vM6, vM5, vLC, vLab6, vBP, vBM, vRQ, vCsv, vAC, vCov, vAR, vTG, vGit, vRP, vVC, vPC, vCF, vTS>>

OtherThanRP == <<vM6, vM5, vLC, vLab6, vBP, vBM, vRQ, vCsv, vAC, vCov, vAR, vTG, vGit, vGL, vVC, vPC, vCF, vTS>>

OtherThanVC == <<vM6, vM5, vLC, vLab6, vBP, vBM, vRQ, vCsv, vAC, vCov, vAR, vTG, vGit, vGL, vRP, vPC, vCF, vTS>>

OtherThanPC == <<vM6, vM5, vLC, vLab6, vBP, vBM, vRQ, vCsv, vAC, vCov, vAR, vTG, vGit, vGL, vRP, vVC, vCF, vTS>>

OtherThanCF == <<vM6, vM5, vLC, vLab6, vBP, vBM, vRQ, vCsv, vAC, vCov, vAR, vTG, vGit, vGL, vRP, vVC, vPC, vTS>>

OtherThanTS == <<vM6, vM5, vLC, vLab6, vBP, vBM, vRQ, vCsv, vAC, vCov, vAR, vTG, vGit, vGL, vRP, vVC, vPC, vCF>>

OtherThanBM == <<vM6, vM5, vLC, vLab6, vBP, vRQ, vCsv, vAC, vCov, vAR, vTG, vGL, vRP, vVC, vPC, vCF, vTS>>

(***************************************************************************)
(* Bounds of the model                                                     *)
(***************************************************************************)
MaxRC == 1

\* machine loads: the wall-clock time of a pytest execution grows with it
MaxLoad == 2

\* values of run_sequential_tests' parameter `iterations`
MaxIterations == 3

\* findings in a Bandit report
MaxFindings == 2

\* commits get_last_100_non_merge_commits returns for a repository
MaxCommits == 2

\* data rows of a results.csv that analyze_results.py loads
MaxRows == 3

\* distinct commit dates in a results.csv
MaxDate == 2

\* findings of one severity level at a commit
MaxCount == 2

\* files in a coverage report
MaxFiles == 2

\* statements of a file in a coverage report
MaxStatements == 2

\* keys of low_coverage_files.json
MaxLowFiles == 2

\* values of generate_tests_for_file's parameter `timeout`, in seconds
MaxTimeout == 2

\* log lines listed when fewer than the 100 returned are listed
MaxShortLog == 2

\* log lines listed beyond the 100 returned
MaxOverLimit == 1

\* files of file_coverage when they are few
MaxFewFiles == 2

\* files of file_coverage beyond the 10 that are plotted
MaxOverPlot == 1

\* failing_tests lists in parallel_results.json
MaxFailureLists == 2

\* return codes a child process may exit with
RC == 0..MaxRC

Last(s) == s[Len(s)]

\* a path at which no file exists
NoFile == "<missing>"

\* a Python dict is a function from its keys; {} is the function of no key
EmptyDict == [k \in {} |-> 0]

\* d[k] = v
DictSet(d, k, v) == [x \in DOMAIN d \cup {k} |-> IF x = k THEN v ELSE d[x]]

\* d.get(k, default)
DictGet(d, k, default) == IF k \in DOMAIN d THEN d[k] ELSE default

\* a file on disk: absent, or present with text that json.load accepts
\* (data is the value it denotes) or rejects
MissingFile == [exists |-> FALSE, valid |-> FALSE, data |-> EmptyDict]

InvalidJsonFile == [exists |-> TRUE, valid |-> FALSE, data |-> EmptyDict]

JsonFile(d) == [exists |-> TRUE, valid |-> TRUE, data |-> d]

\* json.load(open(file)) succeeds
Loadable(file) == file.exists /\ file.valid

IsPrefix(s, t) == Len(s) <= Len(t) /\ \A i \in 1..Len(s) : s[i] = t[i]

(***************************************************************************)
(* lab6_final/master-script.py                                             *)
(***************************************************************************)
StageOrder ==
    <<"setup_environment", "run_sequential_tests", "run_parallel_tests",
      "analyze_results">>

HelperScripts ==
    {"../sequential-test-script.py", "../parallel-test-script.py",
     "../analysis-script.py"}

\* run_command: the command is run to completion and its return code returned
run_command(stage, command, rc) == [stage |-> stage, cmd |-> command, rc |-> rc]

Succeeded_AnyCode(rc) == rc >= 0

\* the callers' test `run_command(...) == 0`
Succeeded(rc) == rc = 0

activate_cmd == IF platform_win32 THEN ".\\venv\\Scripts\\activate"
                ELSE "source venv/bin/activate"

\* setup_environment: the commands it runs for the given return codes, in
\* order, stopping at the first one that fails
setup_commands(rcClone, rcVenv, rcPip, rcPipE) ==
    LET st == "setup_environment"
        clone == IF algorithms_exists THEN <<>>
                 ELSE <<run_command(st, "git clone", rcClone)>>
        venv  == IF venv_exists THEN <<>>
                 ELSE <<run_command(st, IF platform_win32 THEN "python -m venv venv"
                                        ELSE "python3 -m venv venv", rcVenv)>>
        pip   == <<run_command(st, "pip install pytest pytest-xdist pytest-run-parallel", rcPip)>>
        pipE  == <<run_command(st, "pip install -e .", rcPipE)>>
    IN  IF clone # <<>> /\ ~Succeeded(rcClone) THEN clone
        ELSE IF venv # <<>> /\ ~Succeeded(rcVenv) THEN clone \o venv
        ELSE IF ~Succeeded(rcPip) THEN clone \o venv \o pip
        ELSE clone \o venv \o pip \o pipE

\* the state of a script that is not running
IdleM6 ==
    /\ pc6 = "idle"
    /\ platform_win32 = FALSE
    /\ algorithms_exists = FALSE
    /\ venv_exists = FALSE
    /\ helper_scripts = {}
    /\ started = <<>>
    /\ commands = <<>>
    /\ main_return = -1

IdleM5 ==
    /\ pc5 = "idle"
    /\ present_scripts = {}
    /\ script_index = 1
    /\ runs = <<>>
    /\ success_count = 0
    /\ summary = -1

IdleLC ==
    /\ pcLC = "idle"
    /\ lc_module = "none"
    /\ suite_a_file = NoFile
    /\ suite_b_file = NoFile
    /\ suite_a_data = EmptyDict
    /\ suite_b_data = EmptyDict

NoReport == [written |-> FALSE, failing |-> 0, flaky |-> 0, tseq |-> 0, matrix |-> <<>>]

IdleDisk ==
    /\ sequential_results_json = MissingFile
    /\ sequential_time_json = MissingFile
    /\ parallel_results_json = MissingFile

IdlePar ==
    /\ pcPar = "idle"
    /\ machine_load = 0
    /\ tseq = 0
    /\ config_index = 1
    /\ results = <<>>

\* Python's None
None == [is_none |-> TRUE]

IdleBP ==
    /\ pcBP = "idle"
    /\ output_file = MissingFile
    /\ finding_index = 1
    /\ metrics = None
    /\ parse_result = None

\* the repositories of main, in processing order
repositories == <<"bandit", "manim", "flask">>

RepoNames == {repositories[i] : i \in 1..Len(repositories)}

\* a path at which no CSV file has been written
NoCsv == [exists |-> FALSE, rows |-> <<>>]

IdleBM ==
    /\ pcBM = "idle"
    /\ bandit_installed = FALSE
    /\ repo_exists = [r \in RepoNames |-> FALSE]
    /\ repo_index = 1
    /\ repo_commits = [r \in RepoNames |-> <<>>]
    /\ commit_index = 1
    /\ results_csv = [r \in RepoNames |-> NoCsv]
    /\ processed = [r \in RepoNames |-> <<>>]

IdleRQ ==
    /\ pcRQ = "idle"
    /\ rq_rows = <<>>
    /\ df = EmptyDict

IdleCsv ==
    /\ pcCsv = "idle"
    /\ cwe_lists = <<>>
    /\ csv_column = <<>>
    /\ cwe_frame = <<>>
    /\ cwe_loaded = [raised |-> FALSE, column |-> <<>>]

IdleAC ==
    /\ pcAC = "idle"
    /\ ac_module = "none"
    /\ cov_data = EmptyDict
    /\ coverage_result = EmptyDict

IdleCov ==
    /\ pcCov = "idle"
    /\ cov_env = EmptyDict
    /\ coverage_json = MissingFile
    /\ suite_a_json = MissingFile
    /\ cov_trace = EmptyDict
    /\ cov_loaded = None
    /\ cov_analysis = None

IdleAR ==
    /\ pcAR = "idle"
    /\ ar_csv = [r \in RepoNames |-> NoCsv]
    /\ ar_index = 1
    /\ repositories_data = EmptyDict
    /\ repositories_summaries = EmptyDict
    /\ rq1_summary_json = MissingFile
    /\ rq2_summary_json = MissingFile
    /\ rq3_summary_json = MissingFile
    /\ consolidated_report_json = MissingFile

IdleTG ==
    /\ pcTG = "idle"
    /\ low_coverage_files_json = MissingFile
    /\ tg_env = EmptyDict
    /\ tg_index = 1
    /\ pynguin_successes = 0
    /\ tg_stdout = <<>>
    /\ pynguin_invocations = <<>>
    /\ exit_status = -1
    /\ elapsed = 0
    /\ child = "none"
    /\ signals = <<>>
    /\ polls = <<>>
    /\ gen_returns = <<>>
    /\ pynguin_tests = EmptyDict
    /\ master_written = FALSE

\* HEAD of a repository: on a branch, or detached at a commit
OnBranch(b) == [detached |-> FALSE, at |-> b]

Detached(hash) == [detached |-> TRUE, at |-> hash]

IdleGit ==
    /\ git_branch = [r \in RepoNames |-> "main"]
    /\ git_head = [r \in RepoNames |-> OnBranch("main")]
    /\ git_log = <<>>

IdleGL ==
    /\ pcGL = "idle"
    /\ log_commits = <<>>
    /\ git_log_stdout = <<>>
    /\ gl_return = [raised |-> FALSE, commits |-> <<>>]

IdleRP ==
    /\ pcRP = "idle"
    /\ rp_config = <<>>
    /\ rp_executions = <<>>
    /\ rp_result = <<>>

IdleVC ==
    /\ pcVC = "idle"
    /\ pytest_ini = [exists |-> FALSE, lines |-> <<>>]
    /\ vc_stdout = <<>>
    /\ vc_failing_tests = <<>>
    /\ vc_return = "none"
    /\ ini_writes = <<>>

IdlePC ==
    /\ pcPC = "idle"
    /\ suite_name = ""
    /\ file_coverage = <<>>
    /\ not_fully_covered_files = <<>>
    /\ sorted_files = <<>>
    /\ low_coverage_files_out = MissingFile
    /\ low_written = FALSE

IdleCF ==
    /\ pcCF = "idle"
    /\ cf_failure_lists = <<>>
    /\ failure_analysis = [all_failing_tests |-> <<>>]
    /\ cf_index = 0
    /\ categorized_failures = [shared_resources |-> <<>>, timing_issues |-> <<>>, order_dependencies |-> <<>>, other_issues |-> <<>>]

IdleTS ==
    /\ pcTS = "idle"
    /\ ts_nested = [avg |-> 0, outer_avg_times |-> <<>>, all_times |-> <<>>]
    /\ ts_simple = [avg |-> 0, times |-> <<>>]

IdleSeq ==
    /\ pcSeq = "idle"
    /\ seq_iterations = 0
    /\ outputs = <<>>
    /\ execution_times = <<>>
    /\ test_results = EmptyDict
    /\ test_order = <<>>
    /\ failing_tests = <<>>
    /\ flaky_tests = <<>>

IdleAn ==
    /\ pcAn = "idle"
    /\ sequential_data = EmptyDict
    /\ an_parallel_results = <<>>
    /\ report = NoReport

IdleExceptM6 == IdleBP /\ IdleBM /\ IdleRQ /\ IdleSeq /\ IdleM5 /\ IdleLC /\ IdleDisk /\ IdleAn /\ IdlePar /\ IdleCsv /\ IdleAC /\ IdleCov /\ IdleAR /\ IdleTG /\ IdleGit /\ IdleGL /\ IdleRP /\ IdleVC /\ IdlePC /\ IdleCF /\ IdleTS

IdleExceptM5 == IdleBP /\ IdleBM /\ IdleRQ /\ IdleSeq /\ IdleM6 /\ IdleLC /\ IdleDisk /\ IdleAn /\ IdlePar /\ IdleCsv /\ IdleAC /\ IdleCov /\ IdleAR /\ IdleTG /\ IdleGit /\ IdleGL /\ IdleRP /\ IdleVC /\ IdlePC /\ IdleCF /\ IdleTS

IdleExceptLC == IdleBP /\ IdleBM /\ IdleRQ /\ IdleSeq /\ IdleM6 /\ IdleM5 /\ IdleDisk /\ IdleAn /\ IdlePar /\ IdleCsv /\ IdleAC /\ IdleCov /\ IdleAR /\ IdleTG /\ IdleGit /\ IdleGL /\ IdleRP /\ IdleVC /\ IdlePC /\ IdleCF /\ IdleTS

IdleExceptLab6 == IdleM6 /\ IdleM5 /\ IdleLC /\ IdleBP /\ IdleBM /\ IdleRQ /\ IdleCsv /\ IdleAC /\ IdleCov /\ IdleAR /\ IdleTG /\ IdleGit /\ IdleGL /\ IdleRP /\ IdleVC /\ IdlePC /\ IdleCF /\ IdleTS

IdleLab6 == IdleDisk /\ IdleAn /\ IdlePar /\ IdleSeq

InitM6 ==
    /\ IdleExceptM6
    /\ pc6 = "setup_environment"
    /\ platform_win32 \in BOOLEAN
    /\ algorithms_exists \in BOOLEAN
    /\ venv_exists \in BOOLEAN
    /\ helper_scripts \in SUBSET HelperScripts
    /\ started = <<>>
    /\ commands = <<>>
    /\ main_return = -1

\* main, lines 186-193: setup_environment and the test of its result
SetupEnvironment ==
    /\ pc6 = "setup_environment"
    /\ \E rcClone \in RC, rcVenv \in RC, rcPip \in RC, rcPipE \in RC :
         LET cmds == setup_commands(rcClone, rcVenv, rcPip, rcPipE)
             success == \A i \in 1..Len(cmds) : Succeeded(cmds[i].rc)
         IN  /\ started' = Append(started, "setup_environment")
             /\ commands' = commands \o cmds
             /\ algorithms_exists' = (algorithms_exists \/ Succeeded(rcClone))
             /\ venv_exists' =
                  (venv_exists \/ (\E i \in 1..Len(cmds) :
                      cmds[i].cmd \in {"python -m venv venv", "python3 -m venv venv"}
                      /\ Succeeded(cmds[i].rc)))
             /\ IF success
                THEN pc6' = "run_sequential_tests" /\ main_return' = main_return
                ELSE pc6' = "returned" /\ main_return' = 1
    /\ UNCHANGED <<platform_win32, helper_scripts, OtherThanM6>>

\* a stage that copies its helper script and runs it (run_sequential_tests,
\* run_parallel_tests, analyze_results), followed by main's test of its result
RunStage(stage, helper, script, next) ==
    /\ pc6 = stage
    /\ started' = Append(started, stage)
    /\ IF helper \notin helper_scripts
       THEN \* open(helper) raises FileNotFoundError, which main does not catch
            /\ pc6' = "raised"
            /\ UNCHANGED <<commands, main_return>>
       ELSE \E rc \in RC :
            /\ commands' = Append(commands,
                                  run_command(stage, activate_cmd \o " && python " \o script, rc))
            /\ IF Succeeded(rc)
               THEN /\ pc6' = next
                    /\ main_return' = IF next = "returned" THEN 0 ELSE main_return
               ELSE /\ pc6' = "returned"
                    /\ main_return' = 1
    /\ UNCHANGED <<platform_win32, algorithms_exists, venv_exists, helper_scripts,
                   OtherThanM6>>

RunSequentialTestsStage ==
    RunStage("run_sequential_tests", "../sequential-test-script.py",
             "sequential_tests.py", "run_parallel_tests")

RunParallelTestsStage ==
    RunStage("run_parallel_tests", "../parallel-test-script.py",
             "parallel_tests.py", "analyze_results")

AnalyzeResultsStage ==
    RunStage("analyze_results", "../analysis-script.py",
             "analyze_results.py", "returned")

NextM6 ==
    \/ SetupEnvironment
    \/ RunSequentialTestsStage
    \/ RunParallelTestsStage
    \/ AnalyzeResultsStage

SpecLab6Master == InitM6 /\ [][NextM6]_vars

\* the commands a stage has run
CommandsOf(stage) == SelectSeq(commands, LAMBDA c : c.stage = stage)

StageFailed(stage) == \E i \in 1..Len(commands) :
                          commands[i].stage = stage /\ commands[i].rc # 0

\* C1: the four stages start in the fixed order; a stage starts only after
\* the previous stage ran its commands and all of them exited with 0; once a
\* stage's command fails main has returned 1 and that stage is the last one
\* started; main returns 0 only after all four stages succeeded.
C1_StagesInOrder ==
    /\ IsPrefix(started, StageOrder)
    /\ \A i \in 2..Len(started) :
          /\ CommandsOf(started[i - 1]) # <<>>
          /\ ~StageFailed(started[i - 1])
    /\ \A i \in 1..Len(started) :
          StageFailed(started[i]) =>
              /\ i = Len(started)
              /\ pc6 = "returned"
              /\ main_return = 1
    /\ main_return = 1 => pc6 = "returned" /\ StageFailed(Last(started))
    /\ main_return = 0 =>
          /\ pc6 = "returned"
          /\ started = StageOrder
          /\ \A i \in 1..Len(commands) : commands[i].rc = 0
          /\ \A i \in 1..4 : CommandsOf(StageOrder[i]) # <<>>
    /\ pc6 = "returned" => main_return \in {0, 1}

C1_Witness ==
    /\ pc6 = "returned"
    /\ main_return = 1
    /\ started = SubSeq(StageOrder, 1, 3)
    /\ StageFailed("run_parallel_tests")

(***************************************************************************)
(* lab5_final/master-script.py                                             *)
(***************************************************************************)
scripts ==
    <<"coverage-comparison.py", "module-level-coverage.py", "pynguin-analysis.py",
      "coverage-sunburst.py", "uncovered-scenario-analysis.py">>

run_script_AlwaysTrue(rc) == TRUE

\* run_script: subprocess.run(check=True) raises CalledProcessError on a
\* non-zero exit status, which is caught and turned into False
run_script(rc) == IF rc # 0 THEN FALSE ELSE TRUE

InitM5 ==
    /\ IdleExceptM5
    /\ pc5 = "loop"
    /\ present_scripts \in SUBSET {scripts[k] : k \in 1..Len(scripts)}
    /\ script_index = 1
    /\ runs = <<>>
    /\ success_count = 0
    /\ summary = -1

\* one iteration of `for script in scripts`
RunNextScript ==
    /\ pc5 = "loop"
    /\ script_index <= Len(scripts)
    /\ LET script == scripts[script_index]
       IN  IF script \in present_scripts
           THEN \E rc \in RC :
                  /\ runs' = Append(runs, [script |-> script, rc |-> rc])
                  /\ success_count' = IF run_script(rc) THEN success_count + 1
                                      ELSE success_count
           ELSE UNCHANGED <<runs, success_count>>
    /\ script_index' = script_index + 1
    /\ UNCHANGED <<pc5, present_scripts, summary, OtherThanM5>>

\* the summary printed after the loop
PrintSummary ==
    /\ pc5 = "loop"
    /\ script_index > Len(scripts)
    /\ summary' = success_count
    /\ pc5' = "done"
    /\ UNCHANGED <<present_scripts, script_index, runs, success_count, OtherThanM5>>

NextM5 == RunNextScript \/ PrintSummary

SpecLab5Master == InitM5 /\ [][NextM5]_vars

\* the scripts of the list reached so far that exist, in list order
PresentSoFar ==
    SelectSeq(SubSeq(scripts, 1, script_index - 1), LAMBDA sc : sc \in present_scripts)

CoverageTexts ==
    {"", "{\"totals\": ", "{}",
     "{\"totals\": {\"percent_covered\": 50}}",
     "{\"files\": {\"a.py\": {\"summary\": {\"covered_lines\": 1, \"num_statements\": 2}}}}"}

\* json.load succeeds on these texts
ValidJson(text) == text \notin {"", "{\"totals\": "}

\* json.load: the value a valid text denotes
json_load(text) ==
    CASE text = "{}" -> EmptyDict
      [] text = "{\"totals\": {\"percent_covered\": 50}}" ->
            [totals |-> [percent_covered |-> 50]]
      [] text = "{\"files\": {\"a.py\": {\"summary\": {\"covered_lines\": 1, \"num_statements\": 2}}}}" ->
            [files |-> [f \in {"a.py"} |->
                          [summary |-> [covered_lines |-> 1, num_statements |-> 2]]]]

load_file_NoExcept(file) ==
    IF file = NoFile \/ ~ValidJson(file) THEN [raised |-> TRUE, data |-> EmptyDict]
    ELSE [raised |-> FALSE, data |-> json_load(file)]

\* one `try: with open(file) ... json.load(f)  except FileNotFoundError` block:
\* the data it leaves in the variable initialised to {}, and whether an
\* exception leaves the block (JSONDecodeError is not caught)
load_file(file) ==
    IF file = NoFile THEN [raised |-> FALSE, data |-> EmptyDict]
    ELSE IF ~ValidJson(file) THEN [raised |-> TRUE, data |-> EmptyDict]
    ELSE [raised |-> FALSE, data |-> json_load(file)]

InitLC ==
    /\ IdleExceptLC
    /\ pcLC = "call"
    /\ lc_module \in {"coverage-comparison.py", "compare-test-suites.py"}
    /\ suite_a_file \in CoverageTexts \cup {NoFile}
    /\ suite_b_file \in CoverageTexts \cup {NoFile}
    /\ suite_a_data = EmptyDict
    /\ suite_b_data = EmptyDict

\* load_coverage_data(suite_a_file, suite_b_file); the two modules' functions
\* differ in their default paths only
load_coverage_data ==
    /\ pcLC = "call"
    /\ LET a == load_file(suite_a_file)
           b == load_file(suite_b_file)
       IN  IF a.raised
           THEN /\ pcLC' = "raised"
                /\ UNCHANGED <<suite_a_data, suite_b_data>>
           ELSE /\ suite_a_data' = a.data
                /\ IF b.raised
                   THEN pcLC' = "raised" /\ UNCHANGED suite_b_data
                   ELSE pcLC' = "returned" /\ suite_b_data' = b.data
    /\ UNCHANGED <<lc_module, suite_a_file, suite_b_file, OtherThanLC>>

NextLC == load_coverage_data

SpecLoadCoverage == InitLC /\ [][NextLC]_vars

Parseable(file) == file = NoFile \/ ValidJson(file)

\* C3: when each of the two files is either missing or holds valid JSON,
\* load_coverage_data returns (it does not raise), and for each file
\* independently the value returned is {} when the file is missing and the
\* parsed JSON when it exists.
C3_MissingFileGivesEmptyDict ==
    (pcLC # "call" /\ Parseable(suite_a_file) /\ Parseable(suite_b_file)) =>
        /\ pcLC = "returned"
        /\ suite_a_file = NoFile => suite_a_data = EmptyDict
        /\ suite_a_file # NoFile => suite_a_data = json_load(suite_a_file)
        /\ suite_b_file = NoFile => suite_b_data = EmptyDict
        /\ suite_b_file # NoFile => suite_b_data = json_load(suite_b_file)

\* one file missing, the other present with content
C3_Witness ==
    /\ pcLC = "returned"
    /\ suite_a_file = NoFile
    /\ suite_b_file # NoFile
    /\ suite_a_data = EmptyDict
    /\ suite_b_data # EmptyDict

(***************************************************************************)
(* sequential_time.json, written by lab6 sequential-test-script.py and     *)
(* read by parallel-test-script.py and analysis-script.py                  *)
(***************************************************************************)
SeqTimeTopKeys == {"avg_time", "avg_time_simple", "avg_time_nested"}

NestedForms == {"absent", "novalue", "value"}

\* a dict with the top-level keys K, and tseq_simple / tseq_nested absent, a
\* dict without "value", or a dict with "value"; every entry holds a
\* different number
SeqTimeDict(K, simple, nested) ==
    [k \in K \cup (IF simple # "absent" THEN {"tseq_simple"} ELSE {})
             \cup (IF nested # "absent" THEN {"tseq_nested"} ELSE {}) |->
       CASE k = "avg_time" -> 11
         [] k = "avg_time_simple" -> 12
         [] k = "avg_time_nested" -> 13
         [] k = "tseq_simple" ->
               IF simple = "value" THEN [value |-> 14, description |-> "Tseq (5 executions)"]
               ELSE [description |-> "Tseq (5 executions)"]
         [] k = "tseq_nested" ->
               IF nested = "value" THEN [value |-> 15, description |-> "Tseq (nested)"]
               ELSE [description |-> "Tseq (nested)"]]

SeqTimeFiles ==
    {MissingFile, InvalidJsonFile} \cup
    {JsonFile(SeqTimeDict(K, s, n)) :
        K \in SUBSET SeqTimeTopKeys, s \in NestedForms, n \in NestedForms}

(***************************************************************************)
(* pytest console output.  A line is the sequence of its space-separated   *)
(* tokens (line.split(" ")); a token holds no space, so the text " W " is   *)
(* in the line iff W is a token that is neither the first nor the last.    *)
(***************************************************************************)
Contains(line, word) == \E i \in 2..(Len(line) - 1) : line[i] = word

RECURSIVE LStrip(_)
LStrip(line) == IF line = <<>> THEN <<>>
                ELSE IF line[1] = "" THEN LStrip(Tail(line)) ELSE line

RECURSIVE RStrip(_)
RStrip(line) == IF line = <<>> THEN <<>>
                ELSE IF line[Len(line)] = "" THEN RStrip(SubSeq(line, 1, Len(line) - 1))
                ELSE line

RECURSIVE StripFront(_)
StripFront(lines) ==
    IF lines = <<>> THEN <<>>
    ELSE LET l == LStrip(lines[1])
         IN  IF l = <<>> THEN StripFront(Tail(lines)) ELSE <<l>> \o Tail(lines)

RECURSIVE StripBack(_)
StripBack(lines) ==
    IF lines = <<>> THEN <<>>
    ELSE LET l == RStrip(lines[Len(lines)])
             front == SubSeq(lines, 1, Len(lines) - 1)
         IN  IF l = <<>> THEN StripBack(front) ELSE front \o <<l>>

\* result.stdout.strip().split("\n"): the white space before the first and
\* after the last visible token is removed; an empty text is one empty line
StripSplit(stdout) ==
    LET stripped == StripBack(StripFront(stdout))
    IN  IF stripped = <<>> THEN << <<"">> >> ELSE stripped

\* sample outputs of one pytest execution
StdoutSamples ==
    << << <<"tests/test_a.py::test_x", "PASSED", "[", "50%]">>,
          <<"tests/test_b.py::test_y", "PASSED", "[100%]">> >>,
       << <<"tests/test_a.py::test_x", "FAILED", "[", "50%]">>,
          <<"tests/test_b.py::test_y", "PASSED", "[100%]">> >>,
       << <<"tests/test_a.py::test_x", "PASSED", "[", "50%]">>,
          <<"tests/test_b.py::test_y", "ERROR", "[100%]">>,
          <<"FAILED", "tests/test_b.py::test_y", "-", "assert">> >>,
       << <<"">> >>,
       << <<"", "tests/test_a.py::test_x", "FAILED", "">>,
          <<"tests/test_c.py::test_z[", "ERROR", "]", "PASSED", "[100%]">>,
          <<"tests/test_b.py::test_y", "FAILED", "">> >> >>

(***************************************************************************)
(* lab6_final/parallel-test-script.py                                      *)
(***************************************************************************)
configurations ==
    << [worker_count |-> "1",    thread_count |-> "1",    dist_mode |-> "no"],
       [worker_count |-> "auto", thread_count |-> "1",    dist_mode |-> "no"],
       [worker_count |-> "1",    thread_count |-> "1",    dist_mode |-> "load"],
       [worker_count |-> "auto", thread_count |-> "1",    dist_mode |-> "load"],
       [worker_count |-> "1",    thread_count |-> "auto", dist_mode |-> "no"],
       [worker_count |-> "1",    thread_count |-> "auto", dist_mode |-> "load"],
       [worker_count |-> "auto", thread_count |-> "auto", dist_mode |-> "no"],
       [worker_count |-> "auto", thread_count |-> "auto", dist_mode |-> "load"] >>

\* run_parallel_tests(config, iterations=3)
iterations == 3

\* the default Tseq, 10.0
DefaultTseq == 10

\* The i-th pytest execution of the k-th configuration on a machine under the
\* given load: its wall-clock time and its output.
PytestRun(load, k, i) ==
    [time |-> load + ((k * i) % 4),
     stdout |-> StdoutSamples[((load + k + i) % Len(StdoutSamples)) + 1]]

RECURSIVE GCD(_, _)
GCD(a, b) == IF b = 0 THEN a ELSE GCD(b, a % b)

\* the quotient n / d of two non-negative numbers (d > 0), in lowest terms
Quotient(n, d) == LET g == GCD(n, d) IN <<n \div g, d \div g>>

RECURSIVE Sum(_)
Sum(s) == IF s = <<>> THEN 0 ELSE s[1] + Sum(Tail(s))

FailingTestsOf_FailedOnly(stdout) ==
    LET lines == StripSplit(stdout)
        hit == SelectSeq(lines, LAMBDA line : Contains(line, "FAILED"))
    IN  [j \in 1..Len(hit) |-> hit[j][1]]

\* the first tokens of the lines holding " FAILED " or " ERROR "
FailingTestsOf(stdout) ==
    LET lines == StripSplit(stdout)
        hit == SelectSeq(lines, LAMBDA line :
                   Contains(line, "FAILED") \/ Contains(line, "ERROR"))
    IN  [j \in 1..Len(hit) |-> hit[j][1]]

average_DropsFirst(times) ==
    Quotient(Sum(Tail(times)), Len(times))

\* sum(times) / len(times)
average(times) == Quotient(Sum(times), Len(times))

\* run_parallel_tests: the result of the `iterations` pytest executions.
\* flaky_tests is built by iterating over a set, so its order is not fixed;
\* the model keeps it as a set.
run_parallel_tests(config, executions) ==
    LET times == [i \in 1..Len(executions) |-> executions[i].time]
        all_failing_tests == [i \in 1..Len(executions) |-> FailingTestsOf(executions[i].stdout)]
        tpar == average(times)
        InRun(test, i) == \E j \in 1..Len(all_failing_tests[i]) :
                              all_failing_tests[i][j] = test
        all_tests == {all_failing_tests[i][j] :
                         <<i, j>> \in {ij \in (1..Len(executions)) \X (1..8) :
                                          ij[2] <= Len(all_failing_tests[ij[1]])}}
        counts(test) == Cardinality({i \in 1..Len(executions) : InRun(test, i)})
    IN  [config |-> config,
         tpar |-> tpar,
         avg_time |-> tpar,
         times |-> times,
         failures |-> [i \in 1..Len(executions) |-> Len(all_failing_tests[i])],
         failing_tests |-> all_failing_tests,
         flaky_tests |-> {t \in all_tests : 0 < counts(t) /\ counts(t) < Len(executions)}]

\* calculate_speedup(sequential_time, parallel_time), parallel_time a quotient
calculate_speedup(sequential_time, parallel_time) ==
    Quotient(sequential_time * parallel_time[2], parallel_time[1])

HasValue(d, k) == k \in DOMAIN d /\ "value" \in DOMAIN d[k]

load_tseq_NestedBeforeSimple(file) ==
    IF ~(file.exists /\ file.valid) THEN DefaultTseq
    ELSE LET sequential_data_ == file.data
         IN  IF "avg_time" \in DOMAIN sequential_data_ THEN sequential_data_["avg_time"]
             ELSE IF "avg_time_nested" \in DOMAIN sequential_data_
                THEN sequential_data_["avg_time_nested"]
             ELSE IF "avg_time_simple" \in DOMAIN sequential_data_
                THEN sequential_data_["avg_time_simple"]
             ELSE IF HasValue(sequential_data_, "tseq_simple")
                THEN sequential_data_["tseq_simple"]["value"]
             ELSE IF HasValue(sequential_data_, "tseq_nested")
                THEN sequential_data_["tseq_nested"]["value"]
             ELSE DefaultTseq

\* execute_all_configurations, lines 80-115: Tseq from sequential_time.json
load_tseq(file) ==
    IF ~file.exists THEN DefaultTseq           \* except FileNotFoundError
    ELSE IF ~file.valid THEN DefaultTseq       \* except json.JSONDecodeError
    ELSE LET sequential_data_ == file.data
         IN  IF "avg_time" \in DOMAIN sequential_data_ THEN sequential_data_["avg_time"]
             ELSE IF "avg_time_simple" \in DOMAIN sequential_data_
                THEN sequential_data_["avg_time_simple"]
             ELSE IF "avg_time_nested" \in DOMAIN sequential_data_
                THEN sequential_data_["avg_time_nested"]
             ELSE IF HasValue(sequential_data_, "tseq_simple")
                THEN sequential_data_["tseq_simple"]["value"]
             ELSE IF HasValue(sequential_data_, "tseq_nested")
                THEN sequential_data_["tseq_nested"]["value"]
             ELSE DefaultTseq

\* one pass of `for config in configurations`: the result appended
configuration_result(load, t, k) ==
    LET result == run_parallel_tests(configurations[k],
                                     [i \in 1..iterations |-> PytestRun(load, k, i)])
        speedup == calculate_speedup(t, result.tpar)
    IN  [config |-> result.config, tpar |-> result.tpar, avg_time |-> result.avg_time,
         times |-> result.times, failures |-> result.failures,
         failing_tests |-> result.failing_tests, flaky_tests |-> result.flaky_tests,
         speedup |-> speedup, tseq_used |-> t]

InitPar ==
    /\ IdleExceptLab6 /\ IdleAn /\ IdleSeq
    /\ pcPar = "load_tseq"
    /\ machine_load \in 1..MaxLoad
    /\ sequential_results_json = MissingFile
    /\ sequential_time_json \in SeqTimeFiles
    /\ parallel_results_json \in {MissingFile, InvalidJsonFile}
    /\ tseq = 0
    /\ config_index = 1
    /\ results = <<>>

LoadTseq ==
    /\ pcPar = "load_tseq"
    /\ tseq' = load_tseq(sequential_time_json)
    /\ pcPar' = "configurations"
    /\ UNCHANGED <<machine_load, config_index, results, vDisk, vAn, vSeq, OtherThanLab6>>

saved_results_LastOnly(rs) == JsonFile(<<rs[Len(rs)]>>)

\* lines 144-145: open("parallel_results.json", "w") and json.dump(results)
saved_results(rs) == JsonFile(rs)

\* the loop body, lines 132-145, with the file saved at its end
RunConfiguration ==
    /\ pcPar = "configurations"
    /\ config_index <= Len(configurations)
    /\ results' = Append(results, configuration_result(machine_load, tseq, config_index))
    /\ parallel_results_json' = saved_results(results')
    /\ config_index' = config_index + 1
    /\ UNCHANGED <<pcPar, machine_load, tseq, sequential_results_json,
                   sequential_time_json, vAn, vSeq, OtherThanLab6>>

\* lines 147-156: the summary, and the return
ReturnResults ==
    /\ pcPar = "configurations"
    /\ config_index > Len(configurations)
    /\ pcPar' = "done"
    /\ UNCHANGED <<machine_load, tseq, config_index, results, vDisk, vAn, vSeq, OtherThanLab6>>

\* The script is interrupted (KeyboardInterrupt, kill) in a pass of the loop:
\* while the tests of the configuration run (lines 133-141), which leaves
\* everything as it was, or while the file is saved (lines 144-145): open
\* with "w" has emptied the file and json.dump has written a part of the
\* text, which is not a JSON document.
InterruptConfiguration ==
    /\ pcPar = "configurations"
    /\ config_index <= Len(configurations)
    /\ \/ /\ pcPar' = "interrupted_running"
          /\ UNCHANGED <<results, parallel_results_json>>
       \/ /\ pcPar' = "interrupted_saving"
          /\ results' = Append(results, configuration_result(machine_load, tseq, config_index))
          /\ parallel_results_json' = InvalidJsonFile
    /\ UNCHANGED <<machine_load, tseq, config_index, sequential_results_json,
                   sequential_time_json, vAn, vSeq, OtherThanLab6>>

NextPar == LoadTseq \/ RunConfiguration \/ InterruptConfiguration \/ ReturnResults

SpecParallel == InitPar /\ [][NextPar]_vars

SeqTimePriority ==
    <<"avg_time", "avg_time_simple", "avg_time_nested", "tseq_simple", "tseq_nested">>

\* the key is available in sequential_time.json
Available(d, k) ==
    IF k \in {"tseq_simple", "tseq_nested"} THEN HasValue(d, k) ELSE k \in DOMAIN d

ValueAt(d, k) == IF k \in {"tseq_simple", "tseq_nested"} THEN d[k]["value"] ELSE d[k]

\* C5: Tseq is the value of the first available of avg_time, avg_time_simple,
\* avg_time_nested, tseq_simple.value, tseq_nested.value; it is the default
\* 10.0 (which no sample file holds) exactly when the file is missing, is not
\* valid JSON or has none of them.
C5_TseqPriority ==
    pcPar \in {"configurations", "done"} =>
        LET file == sequential_time_json
            avail == IF Loadable(file)
                     THEN SelectSeq(SeqTimePriority, LAMBDA k : Available(file.data, k))
                     ELSE <<>>
        IN  /\ avail # <<>> => tseq = ValueAt(file.data, avail[1])
            /\ (tseq = 10) <=> (~file.exists \/ ~file.valid \/ avail = <<>>)

\* avg_time and avg_time_simple are absent: avg_time_nested is taken before
\* the two nested structures
C5_Witness ==
    /\ pcPar = "done"
    /\ Loadable(sequential_time_json)
    /\ DOMAIN sequential_time_json.data = {"avg_time_nested", "tseq_simple", "tseq_nested"}
    /\ HasValue(sequential_time_json.data, "tseq_simple")
    /\ tseq = 13

C5_WitnessDefault ==
    /\ pcPar = "done"
    /\ Loadable(sequential_time_json)
    /\ DOMAIN sequential_time_json.data = {"tseq_simple", "tseq_nested"}
    /\ tseq = 10

\* C6: in every result, tpar and avg_time are the mean of the recorded times
\* (tpar * len(times) = sum(times)), speedup * tpar = tseq_used, and
\* tseq_used is the one Tseq of the run.
C6_MeanAndSpeedup ==
    \A k \in 1..Len(results) :
        LET r == results[k]
        IN  /\ Len(r.times) = iterations
            /\ \A i \in 1..iterations : r.times[i] = PytestRun(machine_load, k, i).time
            /\ r.tpar[2] > 0
            /\ r.tpar[1] * Len(r.times) = Sum(r.times) * r.tpar[2]
            /\ r.avg_time = r.tpar
            /\ r.speedup[2] > 0
            /\ r.speedup[1] * r.tpar[1] = r.tseq_used * r.speedup[2] * r.tpar[2]
            /\ r.tseq_used = tseq
            /\ r.tseq_used = results[1].tseq_used

\* all eight configurations ran, with times that differ within a
\* configuration and a mean that is not a whole number
C6_Witness ==
    /\ pcPar = "done"
    /\ Len(results) = 8
    /\ \E k \in 1..8 : results[k].times[1] # results[k].times[2]
                       /\ results[k].tpar[2] # 1

\* the results of configurations 1..k, in configuration order
FirstResults(k) == [j \in 1..k |-> configuration_result(machine_load, tseq, j)]

\* configurations completed so far
Completed == config_index - 1

\* C19 (as stated): once k >= 1 configurations have completed,
\* parallel_results.json holds exactly the results of configurations 1..k,
\* also after an interruption in the pass of configuration k+1
C19_FirstResultsOnDisk ==
    (pcPar \in {"configurations", "done", "interrupted_running", "interrupted_saving"}
        /\ Completed >= 1)
    => parallel_results_json = JsonFile(FirstResults(Completed))

\* C19 (what the code ensures): the same while the loop runs, at its end and
\* after an interruption while the tests of configuration k+1 run; every
\* saved result has its speedup and the one Tseq as tseq_used
C19_FirstResultsOnDiskUnlessSaving ==
    (pcPar \in {"configurations", "done", "interrupted_running"} /\ Completed >= 1)
    => /\ Loadable(parallel_results_json)
       /\ parallel_results_json.data = FirstResults(Completed)
       /\ Len(parallel_results_json.data) = Completed
       /\ \A j \in 1..Completed :
             LET r == parallel_results_json.data[j]
             IN  /\ r.config = configurations[j]
                 /\ r.tseq_used = tseq
                 /\ r.speedup = calculate_speedup(tseq, r.tpar)

\* C19: interrupted while the tests of the fourth configuration ran, with
\* three results on disk
C19_Witness ==
    /\ pcPar = "interrupted_running"
    /\ Completed = 3
    /\ Loadable(parallel_results_json)
    /\ Len(parallel_results_json.data) = 3

\* C19: interrupted while the results of the fourth configuration were saved
C19_WitnessSaving ==
    /\ pcPar = "interrupted_saving"
    /\ Completed = 3
    /\ ~Loadable(parallel_results_json)

(***************************************************************************)
(* lab6_final/sequential-test-script.py: run_sequential_tests              *)
(***************************************************************************)
\* the test of line 28
IsResultLine(line) ==
    Contains(line, "PASSED") \/ Contains(line, "FAILED") \/ Contains(line, "ERROR")

\* line 31
status_of(line) == IF Contains(line, "PASSED") THEN "PASSED" ELSE "FAILED"

\* lines 26-32: the statuses of one execution's output appended to
\* test_results (tr), `order` being the order in which the dict got its keys
RECURSIVE record_lines(_, _, _)
record_lines(tr, order, lines) ==
    IF lines = <<>> THEN [tr |-> tr, order |-> order]
    ELSE LET line == lines[1]
         IN  IF IsResultLine(line)
             THEN LET test_name == line[1]
                      known == test_name \in DOMAIN tr
                  IN  record_lines(
                          DictSet(tr, test_name,
                                  Append(DictGet(tr, test_name, <<>>), status_of(line))),
                          IF known THEN order ELSE Append(order, test_name),
                          Tail(lines))
             ELSE record_lines(tr, order, Tail(lines))

all_failed_Any(statuses) == \E i \in 1..Len(statuses) : statuses[i] = "FAILED"

\* all(result == "FAILED" for result in results)
all_failed(statuses) == \A i \in 1..Len(statuses) : statuses[i] = "FAILED"

\* "PASSED" in results and "FAILED" in results
passed_and_failed(statuses) ==
    /\ \E i \in 1..Len(statuses) : statuses[i] = "PASSED"
    /\ \E i \in 1..Len(statuses) : statuses[i] = "FAILED"

InitSeq ==
    /\ IdleExceptLab6 /\ IdleAn /\ IdlePar /\ IdleDisk
    /\ pcSeq = "iterate"
    /\ seq_iterations \in 1..MaxIterations
    /\ outputs = <<>>
    /\ execution_times = <<>>
    /\ test_results = EmptyDict
    /\ test_order = <<>>
    /\ failing_tests = <<>>
    /\ flaky_tests = <<>>

\* one pass of `for i in range(iterations)`: pytest runs, its time and the
\* statuses of its output are recorded
SequentialIteration ==
    /\ pcSeq = "iterate"
    /\ Len(outputs) < seq_iterations
    /\ \E n \in 1..Len(StdoutSamples), execution_time \in 1..MaxLoad :
         LET stdout == StdoutSamples[n]
             rec == record_lines(test_results, test_order, StripSplit(stdout))
         IN  /\ outputs' = Append(outputs, stdout)
             /\ execution_times' = Append(execution_times, execution_time)
             /\ test_results' = rec.tr
             /\ test_order' = rec.order
    /\ UNCHANGED <<pcSeq, seq_iterations, failing_tests, flaky_tests,
                   vDisk, vAn, vPar, OtherThanLab6>>

\* lines 36-66: the tests are classified and sequential_results.json written
ClassifyAndSave ==
    /\ pcSeq = "iterate"
    /\ Len(outputs) = seq_iterations
    /\ failing_tests' = SelectSeq(test_order, LAMBDA t : all_failed(test_results[t]))
    /\ flaky_tests' = SelectSeq(test_order, LAMBDA t :
                          ~all_failed(test_results[t]) /\ passed_and_failed(test_results[t]))
    /\ sequential_results_json' =
          JsonFile([failing_tests |-> failing_tests', flaky_tests |-> flaky_tests',
                    execution_times |-> execution_times])
    /\ pcSeq' = "done"
    /\ UNCHANGED <<seq_iterations, outputs, execution_times, test_results, test_order,
                   sequential_time_json, parallel_results_json, vAn, vPar, OtherThanLab6>>

NextSeq == SequentialIteration \/ ClassifyAndSave

SpecSequential == InitSeq /\ [][NextSeq]_vars

RECURSIVE Flatten(_)
Flatten(ss) == IF ss = <<>> THEN <<>> ELSE ss[1] \o Flatten(Tail(ss))

\* the lines of all outputs so far that hold " PASSED ", " FAILED " or " ERROR "
ResultLines ==
    SelectSeq(Flatten([i \in 1..Len(outputs) |-> StripSplit(outputs[i])]), IsResultLine)

LinesOf(test) == SelectSeq(ResultLines, LAMBDA line : line[1] = test)

InSeq(x, s) == \E i \in 1..Len(s) : s[i] = x

\* the statuses test_results holds are, test by test, those of the result
\* lines under the line's first token, in order, given how a line is read
RecordedAs(Status(_)) ==
    /\ DOMAIN test_results = {ResultLines[i][1] : i \in 1..Len(ResultLines)}
    /\ \A test \in DOMAIN test_results :
          /\ Len(test_results[test]) = Len(LinesOf(test))
          /\ \A j \in 1..Len(LinesOf(test)) : test_results[test][j] = Status(LinesOf(test)[j])

Classified ==
    pcSeq = "done" =>
        \A test \in DOMAIN test_results :
            LET st == test_results[test]
            IN  /\ InSeq(test, failing_tests) <=> (\A j \in 1..Len(st) : st[j] = "FAILED")
                /\ InSeq(test, flaky_tests) <=> (InSeq("PASSED", st) /\ InSeq("FAILED", st))
                /\ ~(InSeq(test, failing_tests) /\ InSeq(test, flaky_tests))
                /\ (\A j \in 1..Len(st) : st[j] = "PASSED") =>
                       ~InSeq(test, failing_tests) /\ ~InSeq(test, flaky_tests)

\* a line is read as the claim has it: an ERROR line is FAILED
StatusErrorIsFailed(line) ==
    IF Contains(line, "ERROR") \/ Contains(line, "FAILED") THEN "FAILED" ELSE "PASSED"

\* a line is read as the code has it: PASSED when it holds " PASSED ",
\* FAILED otherwise
StatusPassedFirst(line) == IF Contains(line, "PASSED") THEN "PASSED" ELSE "FAILED"

\* C7 as stated: one status per result line under its first token, a line
\* holding " ERROR " or " FAILED " recorded as FAILED; failing iff all FAILED,
\* flaky iff both statuses occur.
C7_Original == RecordedAs(StatusErrorIsFailed) /\ Classified

\* C7 amended: one status per result line under its first token, PASSED when
\* the line holds " PASSED " (also when it holds " ERROR " or " FAILED " as
\* well), FAILED otherwise; a test is failing iff all its statuses are FAILED
\* and flaky iff both statuses occur, so the two lists are disjoint and a
\* test that always passed is in neither.
C7_StatusesAndClassification == RecordedAs(StatusPassedFirst) /\ Classified

\* a run that ends with a consistently failing and a flaky test, and in which
\* an ERROR line was recorded as FAILED
C7_Witness ==
    /\ pcSeq = "done"
    /\ failing_tests # <<>>
    /\ flaky_tests # <<>>
    /\ \E i \in 1..Len(ResultLines) :
          Contains(ResultLines[i], "ERROR") /\ ~Contains(ResultLines[i], "PASSED")
          /\ InSeq(ResultLines[i][1], failing_tests)

(***************************************************************************)
(* lab6_final/analysis-script.py: main                                     *)
(***************************************************************************)
\* sequential_results.json as run_sequential_tests writes it
SeqResultsFiles ==
    {MissingFile, InvalidJsonFile,
     JsonFile([failing_tests |-> <<>>, flaky_tests |-> <<>>,
               execution_times |-> <<3, 3>>]),
     JsonFile([failing_tests |-> <<"tests/test_a.py::test_x">>,
               flaky_tests |-> <<"tests/test_b.py::test_y", "tests/test_b.py::test_z">>,
               execution_times |-> <<3, 4>>])}

\* the first k results of a run of execute_all_configurations
ResultsAfter(load, t, k) == [j \in 1..k |-> configuration_result(load, t, j)]

\* parallel_results.json as execute_all_configurations writes it: after an
\* interrupted run and after a complete one
ParResultsFiles ==
    {MissingFile, InvalidJsonFile,
     JsonFile(ResultsAfter(1, 11, 1)),
     JsonFile(ResultsAfter(2, DefaultTseq, 3)),
     JsonFile(ResultsAfter(1, 12, 8))}

load_json_FileNotFoundOnly(file, default) ==
    IF ~file.exists THEN [raised |-> FALSE, value |-> default]
    ELSE IF ~file.valid THEN [raised |-> TRUE, value |-> default]
    ELSE [raised |-> FALSE, value |-> file.data]

\* try: json.load(open(file))  except: <default>
load_json(file, default) ==
    IF file.exists /\ file.valid THEN [raised |-> FALSE, value |-> file.data]
    ELSE [raised |-> FALSE, value |-> default]

default_sequential_data ==
    [failing_tests |-> <<>>, flaky_tests |-> <<>>, execution_times |-> <<>>]

merge_sequential_time_SimpleFirst(sd, file) ==
    IF file.exists /\ file.valid
    THEN LET t == file.data
         IN  IF "avg_time_simple" \in DOMAIN t
                THEN DictSet(sd, "avg_time", t["avg_time_simple"])
             ELSE IF "avg_time" \in DOMAIN t
                THEN DictSet(sd, "avg_time", t["avg_time"])
             ELSE IF "tseq_simple" \in DOMAIN t /\ "value" \in DOMAIN t["tseq_simple"]
                THEN DictSet(sd, "avg_time", t["tseq_simple"]["value"])
             ELSE sd
    ELSE IF "avg_time" \notin DOMAIN sd THEN DictSet(sd, "avg_time", 0) ELSE sd

\* main, lines 369-393: avg_time taken from sequential_time.json
merge_sequential_time(sd, file) ==
    IF file.exists /\ file.valid
    THEN LET t == file.data
         IN  IF "avg_time" \in DOMAIN t
                THEN DictSet(sd, "avg_time", t["avg_time"])
             ELSE IF "avg_time_simple" \in DOMAIN t
                THEN DictSet(sd, "avg_time", t["avg_time_simple"])
             ELSE IF "tseq_simple" \in DOMAIN t /\ "value" \in DOMAIN t["tseq_simple"]
                THEN DictSet(sd, "avg_time", t["tseq_simple"]["value"])
             ELSE sd
    ELSE IF "avg_time" \notin DOMAIN sd THEN DictSet(sd, "avg_time", 0) ELSE sd

\* analyze_parallel_failures and create_execution_matrix divide by
\* len(result["failures"])
DividesByZero(presults) == \E i \in 1..Len(presults) : Len(presults[i].failures) = 0

create_execution_matrix(presults) ==
    [i \in 1..Len(presults) |->
        [worker_count |-> presults[i].config.worker_count,
         thread_count |-> presults[i].config.thread_count,
         dist_mode |-> presults[i].config.dist_mode,
         failures |-> presults[i].failures]]

\* generate_report: the figures of the report that come from the input files
generate_report(sd, presults) ==
    [written |-> TRUE,
     failing |-> Len(DictGet(sd, "failing_tests", <<>>)),
     flaky |-> Len(DictGet(sd, "flaky_tests", <<>>)),
     tseq |-> DictGet(sd, "avg_time", 0),
     matrix |-> create_execution_matrix(presults)]

InitAn ==
    /\ IdleExceptLab6 /\ IdlePar /\ IdleSeq
    /\ pcAn = "main"
    /\ sequential_results_json \in SeqResultsFiles
    /\ sequential_time_json \in SeqTimeFiles
    /\ parallel_results_json \in ParResultsFiles
    /\ sequential_data = EmptyDict
    /\ an_parallel_results = <<>>
    /\ report = NoReport

AnalysisMain ==
    /\ pcAn = "main"
    /\ LET r1 == load_json(sequential_results_json, default_sequential_data)
           r3 == load_json(parallel_results_json, <<>>)
       IN  IF r1.raised
           THEN pcAn' = "raised" /\ UNCHANGED <<sequential_data, an_parallel_results, report>>
           ELSE LET sd == merge_sequential_time(r1.value, sequential_time_json)
                IN  /\ sequential_data' = sd
                    /\ IF r3.raised
                       THEN pcAn' = "raised" /\ UNCHANGED <<an_parallel_results, report>>
                       ELSE /\ an_parallel_results' = r3.value
                            /\ IF DividesByZero(r3.value)
                               THEN pcAn' = "raised" /\ UNCHANGED report
                               ELSE /\ report' = generate_report(sd, r3.value)
                                    /\ pcAn' = "done"
    /\ UNCHANGED <<vDisk, vPar, vSeq, OtherThanLab6>>

NextAn == AnalysisMain

SpecAnalysis == InitAn /\ [][NextAn]_vars

\* C4: whichever of the three input files are present, missing or not valid
\* JSON, main ends without an error and with the report written; what could
\* not be loaded is replaced by its default (empty failing_tests and
\* flaky_tests, avg_time 0, no parallel results) and what could be loaded is
\* used.
C4_DefaultsAndReport ==
    pcAn # "main" =>
        /\ pcAn = "done"
        /\ report.written
        /\ IF Loadable(sequential_results_json)
           THEN /\ sequential_data.failing_tests = sequential_results_json.data.failing_tests
                /\ sequential_data.flaky_tests = sequential_results_json.data.flaky_tests
           ELSE /\ sequential_data.failing_tests = <<>>
                /\ sequential_data.flaky_tests = <<>>
                /\ report.failing = 0
                /\ report.flaky = 0
        /\ ~Loadable(sequential_time_json) =>
                /\ sequential_data.avg_time = 0
                /\ report.tseq = 0
        /\ IF Loadable(parallel_results_json)
           THEN /\ an_parallel_results = parallel_results_json.data
                /\ Len(report.matrix) = Len(parallel_results_json.data)
           ELSE /\ an_parallel_results = <<>>
                /\ report.matrix = <<>>

\* nothing could be loaded: one file missing, two not valid JSON
C4_Witness ==
    /\ pcAn = "done"
    /\ report.written
    /\ sequential_results_json = InvalidJsonFile
    /\ sequential_time_json = MissingFile
    /\ parallel_results_json = InvalidJsonFile
    /\ report.tseq = 0

(***************************************************************************)
(* lab78_final/run_bandit_analysis.py: parse_bandit_results                *)
(***************************************************************************)
Levels == {"HIGH", "MEDIUM", "LOW"}

DigitChars == <<"0", "1", "2", "3", "4", "5", "6", "7", "8", "9">>

IsDigit(c) == \E d \in 1..10 : DigitChars[d] = c

\* str(n) of a non-negative integer
RECURSIVE Str(_)
Str(n) == IF n < 10 THEN DigitChars[n + 1]
          ELSE Str(n \div 10) \o DigitChars[(n % 10) + 1]

\* the decimal digits of a non-negative integer, as characters
RECURSIVE DigitsOf(_)
DigitsOf(n) == IF n < 10 THEN <<DigitChars[n + 1]>>
               ELSE DigitsOf(n \div 10) \o <<DigitChars[(n % 10) + 1]>>

\* "CWE-" followed by a digit starts at position i of the text, a sequence of
\* characters
CweAt(text, i) ==
    /\ i + 4 <= Len(text)
    /\ text[i] = "C" /\ text[i + 1] = "W" /\ text[i + 2] = "E" /\ text[i + 3] = "-"
    /\ IsDigit(text[i + 4])

\* \d+ from position j on, greedy
RECURSIVE DigitRun(_, _)
DigitRun(text, j) ==
    IF j <= Len(text) /\ IsDigit(text[j]) THEN text[j] \o DigitRun(text, j + 1) ELSE ""

\* re.search(r'CWE-(\d+)', text), scanning from position i: group(1) of the
\* leftmost match
RECURSIVE re_search_cwe(_, _)
re_search_cwe(text, i) ==
    IF i > Len(text) THEN [found |-> FALSE, group |-> ""]
    ELSE IF CweAt(text, i) THEN [found |-> TRUE, group |-> DigitRun(text, i + 4)]
    ELSE re_search_cwe(text, i + 1)

\* sample findings of a Bandit report; issue_text is a sequence of characters
TextCwe20 == <<"C", "W", "E", "-", "2", "0">>

TextThreeMentions ==
    <<"C", "W", "E", "-", "x", " ", "C", "W", "E", "-", "0", "2", "0", ",",
      "C", "W", "E", "-", "7", "8">>

TextNoCwe == <<"e", "v", "a", "l">>

TextCwe78 == <<"s", "e", "e", " ", "C", "W", "E", "-", "7", "8", ".">>

FindingSamples ==
    { [issue_confidence |-> "HIGH", issue_severity |-> "LOW",
       issue_cwe |-> [id |-> 78, link |-> "https://cwe.mitre.org"],
       issue_text |-> TextCwe20],
      [issue_confidence |-> "MEDIUM", issue_severity |-> "MEDIUM",
       issue_cwe |-> EmptyDict, issue_text |-> TextThreeMentions],
      [issue_confidence |-> "LOW", issue_severity |-> "HIGH", issue_text |-> TextNoCwe],
      [issue_confidence |-> "UNDEFINED", issue_severity |-> "UNDEFINED",
       issue_cwe |-> [id |-> 703, link |-> "https://cwe.mitre.org"]],
      [issue_severity |-> "HIGH", issue_text |-> TextCwe78] }

\* the sequences over S of length at most n
SeqsUpTo(S, n) == UNION {[1..m -> S] : m \in 0..n}

\* a Bandit output file: absent, not JSON, a report without "results", or a
\* report with up to MaxFindings findings
BanditFiles ==
    {MissingFile, InvalidJsonFile, JsonFile([errors |-> <<>>])} \cup
    {JsonFile([errors |-> <<>>, results |-> fs]) : fs \in SeqsUpTo(FindingSamples, MaxFindings)}

new_metrics ==
    [high_confidence |-> 0, medium_confidence |-> 0, low_confidence |-> 0,
     high_severity |-> 0, medium_severity |-> 0, low_severity |-> 0,
     unique_cwes |-> {}]

count_confidence_NoElif(m, result) ==
    LET c == DictGet(result, "issue_confidence", "")
    IN  [m EXCEPT !.high_confidence = IF c = "HIGH" THEN @ + 1 ELSE @,
                  !.medium_confidence = IF c = "MEDIUM" THEN @ + 1 ELSE @,
                  !.low_confidence = IF c # "HIGH" /\ c # "MEDIUM" THEN @ + 1 ELSE @]

\* lines 63-69
count_confidence(m, result) ==
    LET c == DictGet(result, "issue_confidence", "")
    IN  IF c = "HIGH" THEN [m EXCEPT !.high_confidence = @ + 1]
        ELSE IF c = "MEDIUM" THEN [m EXCEPT !.medium_confidence = @ + 1]
        ELSE IF c = "LOW" THEN [m EXCEPT !.low_confidence = @ + 1]
        ELSE m

\* lines 71-77
count_severity(m, result) ==
    LET v == DictGet(result, "issue_severity", "")
    IN  IF v = "HIGH" THEN [m EXCEPT !.high_severity = @ + 1]
        ELSE IF v = "MEDIUM" THEN [m EXCEPT !.medium_severity = @ + 1]
        ELSE IF v = "LOW" THEN [m EXCEPT !.low_severity = @ + 1]
        ELSE m

add_cwe_TextOnly(m, result) ==
    LET cwe_match == re_search_cwe(DictGet(result, "issue_text", <<>>), 1)
    IN  IF cwe_match.found
        THEN [m EXCEPT !.unique_cwes = @ \cup {cwe_match.group}]
        ELSE m

\* lines 79-86
add_cwe(m, result) ==
    IF "issue_cwe" \in DOMAIN result /\ "id" \in DOMAIN result["issue_cwe"]
    THEN [m EXCEPT !.unique_cwes = @ \cup {Str(result["issue_cwe"]["id"])}]
    ELSE LET cwe_match == re_search_cwe(DictGet(result, "issue_text", <<>>), 1)
         IN  IF cwe_match.found
             THEN [m EXCEPT !.unique_cwes = @ \cup {cwe_match.group}]
             ELSE m

\* the body of `for result in data.get('results', [])`
count_finding(m, result) == add_cwe(count_severity(count_confidence(m, result), result), result)

\* list(set): the lists that hold every element of the set once, in some order
ListsOf(S) ==
    {l \in [1..Cardinality(S) -> S] : \A i, j \in 1..Cardinality(S) : l[i] = l[j] => i = j}

InitBP ==
    /\ IdleM6 /\ IdleM5 /\ IdleLC /\ IdleLab6 /\ IdleBM /\ IdleRQ /\ IdleCsv /\ IdleAC /\ IdleCov /\ IdleAR /\ IdleTG /\ IdleGit /\ IdleGL /\ IdleRP /\ IdleVC /\ IdlePC /\ IdleCF /\ IdleTS
    /\ pcBP = "open"
    /\ output_file \in BanditFiles
    /\ finding_index = 1
    /\ metrics = None
    /\ parse_result = None

\* lines 48-60; an exception of open or json.load is caught at line 91 and
\* None is returned
OpenOutputFile ==
    /\ pcBP = "open"
    /\ IF Loadable(output_file)
       THEN metrics' = new_metrics /\ pcBP' = "loop"
       ELSE metrics' = metrics /\ pcBP' = "returned"
    /\ UNCHANGED <<output_file, finding_index, parse_result, OtherThanBP>>

findings == DictGet(output_file.data, "results", <<>>)

\* one pass of the loop of line 62
CountFinding ==
    /\ pcBP = "loop"
    /\ finding_index <= Len(findings)
    /\ metrics' = count_finding(metrics, findings[finding_index])
    /\ finding_index' = finding_index + 1
    /\ UNCHANGED <<pcBP, output_file, parse_result, OtherThanBP>>

\* lines 88-90
ReturnMetrics ==
    /\ pcBP = "loop"
    /\ finding_index > Len(findings)
    /\ \E cwes \in ListsOf(metrics.unique_cwes) :
          parse_result' = [metrics EXCEPT !.unique_cwes = cwes]
    /\ pcBP' = "returned"
    /\ UNCHANGED <<output_file, finding_index, metrics, OtherThanBP>>

NextBP == OpenOutputFile \/ CountFinding \/ ReturnMetrics

SpecBanditParse == InitBP /\ [][NextBP]_vars

\* the findings counted so far
Counted == SubSeq(findings, 1, finding_index - 1)

NumberWith(field, level) ==
    Cardinality({i \in 1..Len(Counted) :
                    field \in DOMAIN Counted[i] /\ Counted[i][field] = level})

InLevels(finding) ==
    /\ "issue_confidence" \in DOMAIN finding /\ finding["issue_confidence"] \in Levels
    /\ "issue_severity" \in DOMAIN finding /\ finding["issue_severity"] \in Levels

ConfidenceSum(m) == m.high_confidence + m.medium_confidence + m.low_confidence

SeveritySum(m) == m.high_severity + m.medium_severity + m.low_severity

\* C8: each finding counted adds one to the counter of its confidence level
\* and to the counter of its severity level, and to no other, so neither sum
\* exceeds the number of findings counted; when every finding of the report
\* has both levels in {HIGH, MEDIUM, LOW} the returned sums both equal the
\* number of findings.
C8_OneCounterPerFinding ==
    /\ pcBP = "loop" \/ (pcBP = "returned" /\ parse_result # None) =>
          /\ metrics.high_confidence = NumberWith("issue_confidence", "HIGH")
          /\ metrics.medium_confidence = NumberWith("issue_confidence", "MEDIUM")
          /\ metrics.low_confidence = NumberWith("issue_confidence", "LOW")
          /\ metrics.high_severity = NumberWith("issue_severity", "HIGH")
          /\ metrics.medium_severity = NumberWith("issue_severity", "MEDIUM")
          /\ metrics.low_severity = NumberWith("issue_severity", "LOW")
          /\ ConfidenceSum(metrics) <= Len(Counted)
          /\ SeveritySum(metrics) <= Len(Counted)
    /\ (pcBP = "returned" /\ parse_result # None) =>
          /\ ConfidenceSum(parse_result) = ConfidenceSum(metrics)
          /\ SeveritySum(parse_result) = SeveritySum(metrics)
          /\ (\A i \in 1..Len(findings) : InLevels(findings[i])) =>
                /\ ConfidenceSum(parse_result) = Len(findings)
                /\ SeveritySum(parse_result) = Len(findings)

\* a report of findings that all have levels, not all the same
C8_Witness ==
    /\ pcBP = "returned"
    /\ parse_result # None
    /\ Len(findings) = MaxFindings
    /\ \A i \in 1..Len(findings) : InLevels(findings[i])
    /\ parse_result.high_confidence = 1
    /\ ConfidenceSum(parse_result) = MaxFindings

\* the position of the leftmost "CWE-<digit>" of a text, 0 if there is none
FirstCwe(text) ==
    IF \E i \in 1..Len(text) : CweAt(text, i)
    THEN CHOOSE i \in 1..Len(text) : CweAt(text, i) /\ \A j \in 1..(i - 1) : ~CweAt(text, j)
    ELSE 0

\* the characters text[a..b] as a string
RECURSIVE Chars(_, _, _)
Chars(text, a, b) == IF a > b THEN "" ELSE text[a] \o Chars(text, a + 1, b)

\* the number that follows "CWE-" at position i: all the digits up to the
\* first character that is not one
NumberAt(text, i) ==
    LET end == CHOOSE e \in (i + 4)..Len(text) :
                   /\ \A j \in (i + 4)..e : IsDigit(text[j])
                   /\ (e = Len(text) \/ ~IsDigit(text[e + 1]))
    IN  Chars(text, i + 4, end)

\* what a finding contributes to unique_cwes
Contribution(finding) ==
    IF "issue_cwe" \in DOMAIN finding /\ "id" \in DOMAIN finding["issue_cwe"]
    THEN {Str(finding["issue_cwe"]["id"])}
    ELSE IF "issue_text" \in DOMAIN finding /\ FirstCwe(finding["issue_text"]) # 0
    THEN {NumberAt(finding["issue_text"], FirstCwe(finding["issue_text"]))}
    ELSE {}

\* C9: the returned unique_cwes list holds no id twice and holds exactly the
\* ids the findings contribute: issue_cwe.id when the finding has one,
\* otherwise the number of the first CWE-<digits> of its issue_text,
\* otherwise nothing.
C9_UniqueCwes ==
    (pcBP = "returned" /\ parse_result # None) =>
        LET cwes == parse_result.unique_cwes
        IN  /\ \A i, j \in 1..Len(cwes) : cwes[i] = cwes[j] => i = j
            /\ {cwes[i] : i \in 1..Len(cwes)} =
                   UNION {Contribution(findings[i]) : i \in 1..Len(findings)}

\* one finding contributes its issue_cwe.id although its text names another
\* CWE, the other contributes the first number of its text
C9_Witness ==
    /\ pcBP = "returned"
    /\ parse_result # None
    /\ Len(findings) = 2
    /\ DictGet(findings[1], "issue_text", <<>>) = TextCwe20
    /\ DictGet(findings[2], "issue_text", <<>>) = TextThreeMentions
    /\ parse_result.unique_cwes = <<"78", "020">>

(***************************************************************************)
(* lab78_final/run_bandit_analysis.py: main                                *)
(***************************************************************************)
\* the commits get_last_100_non_merge_commits returns: n commits of the
\* repository, newest first
CommitsOf(repo, n) ==
    [i \in 1..n |->
        [hash |-> repo \o "-" \o Str(i), author |-> "dev" \o Str(i), timestamp |-> i,
         date |-> "1970-01-01 00:00:0" \o Str(i), message |-> "fix, part " \o Str(i)]]

\* Bandit reports: without "results", with two findings of different CWEs,
\* with one finding without CWE
SampleReports ==
    << [errors |-> <<>>],
       [errors |-> <<>>,
        results |-> << [issue_confidence |-> "HIGH", issue_severity |-> "LOW",
                        issue_cwe |-> [id |-> 78, link |-> "https://cwe.mitre.org"],
                        issue_text |-> TextCwe20],
                       [issue_confidence |-> "MEDIUM", issue_severity |-> "MEDIUM",
                        issue_cwe |-> EmptyDict, issue_text |-> TextThreeMentions] >>],
       [errors |-> <<>>,
        results |-> << [issue_confidence |-> "LOW", issue_severity |-> "HIGH",
                        issue_text |-> TextNoCwe] >>] >>

\* the report Bandit produces for the i-th commit of the r-th repository
ReportOf(r, i) == SampleReports[((r + i) % Len(SampleReports)) + 1]

\* what is at <hash>.json after run_bandit_on_commit returned: nothing, text
\* that is not JSON, or the report
BanditOutputs(r, i) == {MissingFile, InvalidJsonFile, JsonFile(ReportOf(r, i))}

\* the loop of line 62 from the i-th finding on
RECURSIVE count_findings(_, _, _)
count_findings(m, fs, i) ==
    IF i > Len(fs) THEN m ELSE count_findings(count_finding(m, fs[i]), fs, i + 1)

parse_bandit_results_EmptyMetricsOnError(file) ==
    LET m == IF Loadable(file)
             THEN count_findings(new_metrics, DictGet(file.data, "results", <<>>), 1)
             ELSE new_metrics
    IN  {[m EXCEPT !.unique_cwes = cwes] : cwes \in ListsOf(m.unique_cwes)}

\* parse_bandit_results: the values a call may return (list(set) fixes no
\* order); None when open or json.load raises
parse_bandit_results(file) ==
    IF ~Loadable(file) THEN {None}
    ELSE LET m == count_findings(new_metrics, DictGet(file.data, "results", <<>>), 1)
         IN  {[m EXCEPT !.unique_cwes = cwes] : cwes \in ListsOf(m.unique_cwes)}

\* `if metrics:` -- None is false, the dict of seven keys is true
truthy(m) == m # None

\* sep.join(list)
RECURSIVE join(_, _)
join(sep, list) ==
    IF Len(list) = 0 THEN ""
    ELSE IF Len(list) = 1 THEN list[1]
    ELSE list[1] \o sep \o join(sep, Tail(list))

\* lines 189-194
Header ==
    <<"commit_hash", "author", "date", "message",
      "high_confidence", "medium_confidence", "low_confidence",
      "high_severity", "medium_severity", "low_severity", "unique_cwes">>

\* lines 207-219: the cells of the row, as csv.writer formats them
csv_row(commit, m) ==
    <<commit.hash, commit.author, commit.date, commit.message,
      Str(m.high_confidence), Str(m.medium_confidence), Str(m.low_confidence),
      Str(m.high_severity), Str(m.medium_severity), Str(m.low_severity),
      join(",", m.unique_cwes)>>

\* the commits of a repository
HashesOf(repo) == {CommitsOf(repo, MaxCommits)[i].hash : i \in 1..MaxCommits}

\* the names the local branch of the clones may have (the clones are alike)
BranchNames == {"main", "master", "stable"}

\* The local branch of a repository is the one it was on at the start (the
\* commits checked out are detached).  `git checkout <target>`: HEAD moves
\* to a commit of the repository or to its branch; for any other target git
\* fails and HEAD stays (subprocess.run without check=True does not raise).
git_checkout(head, repo, target) ==
    IF target \in HashesOf(repo) THEN Detached(target)
    ELSE IF target = git_branch[repo] THEN OnBranch(target)
    ELSE head

\* `git branch --show-current`: the branch name, nothing when detached
show_current(head) == IF head.detached THEN "" ELSE head.at

return_to_branch_AlwaysMaster(head, repo) ==
    LET h1 == git_checkout(head, repo, "main")
        current_branch == show_current(h1)
    IN  [head |-> git_checkout(h1, repo, "master"),
         commands |->
            <<[repo |-> repo, cmd |-> "checkout", arg |-> "main", out |-> ""],
              [repo |-> repo, cmd |-> "branch --show-current", arg |-> "", out |-> current_branch],
              [repo |-> repo, cmd |-> "checkout", arg |-> "master", out |-> ""]>>]

\* lines 223-231: the git commands run and where they leave HEAD
return_to_branch(head, repo) ==
    LET h1 == git_checkout(head, repo, "main")
        current_branch == show_current(h1)
    IN  [head |-> IF current_branch # "main" THEN git_checkout(h1, repo, "master") ELSE h1,
         commands |->
            <<[repo |-> repo, cmd |-> "checkout", arg |-> "main", out |-> ""],
              [repo |-> repo, cmd |-> "branch --show-current", arg |-> "", out |-> current_branch]>>
            \o (IF current_branch # "main"
                THEN <<[repo |-> repo, cmd |-> "checkout", arg |-> "master", out |-> ""]>>
                ELSE <<>>)]

InitBM ==
    /\ IdleM6 /\ IdleM5 /\ IdleLC /\ IdleLab6 /\ IdleBP /\ IdleRQ /\ IdleCsv /\ IdleAC /\ IdleCov /\ IdleAR /\ IdleTG /\ IdleGL /\ IdleRP /\ IdleVC /\ IdlePC /\ IdleCF /\ IdleTS
    /\ pcBM = "repositories"
    /\ bandit_installed \in BOOLEAN
    /\ repo_exists \in [RepoNames -> BOOLEAN]
    /\ repo_index = 1
    /\ repo_commits = [r \in RepoNames |-> <<>>]
    /\ commit_index = 1
    /\ results_csv = [r \in RepoNames |-> NoCsv]
    /\ processed = [r \in RepoNames |-> <<>>]
    /\ git_branch = [r \in RepoNames |-> "main"]
    /\ git_head = [r \in RepoNames |-> OnBranch(git_branch[r])]
    /\ git_log = <<>>

\* the start of main with clones on any branches, one of the three clones
\* at least being absent
InitGit ==
    /\ IdleM6 /\ IdleM5 /\ IdleLC /\ IdleLab6 /\ IdleBP /\ IdleRQ /\ IdleCsv /\ IdleAC /\ IdleCov /\ IdleAR /\ IdleTG /\ IdleGL /\ IdleRP /\ IdleVC /\ IdlePC /\ IdleCF /\ IdleTS
    /\ pcBM = "repositories"
    /\ bandit_installed \in BOOLEAN
    /\ repo_exists \in {e \in [RepoNames -> BOOLEAN] : \E r \in RepoNames : ~e[r]}
    /\ repo_index = 1
    /\ repo_commits = [r \in RepoNames |-> <<>>]
    /\ commit_index = 1
    /\ results_csv = [r \in RepoNames |-> NoCsv]
    /\ processed = [r \in RepoNames |-> <<>>]
    /\ git_branch \in {b \in [RepoNames -> BranchNames] :
                          \A r \in RepoNames : ~repo_exists[r] => b[r] = "main"}
    /\ git_head = [r \in RepoNames |-> OnBranch(git_branch[r])]
    /\ git_log = <<>>

repo_name == repositories[repo_index]

commits == repo_commits[repo_name]

\* lines 168-170
SkipRepository ==
    /\ pcBM = "repositories"
    /\ repo_index <= Len(repositories)
    /\ ~repo_exists[repo_name]
    /\ repo_index' = repo_index + 1
    /\ UNCHANGED <<pcBM, bandit_installed, repo_exists, repo_commits, commit_index,
                   results_csv, processed, vGit, OtherThanBM>>

\* lines 172-194: the commits are listed, results.csv is opened for writing
\* and the header row written
OpenResults ==
    /\ pcBM = "repositories"
    /\ repo_index <= Len(repositories)
    /\ repo_exists[repo_name]
    /\ \E n \in 0..MaxCommits :
          repo_commits' = [repo_commits EXCEPT ![repo_name] = CommitsOf(repo_name, n)]
    /\ results_csv' = [results_csv EXCEPT ![repo_name] = [exists |-> TRUE, rows |-> <<Header>>]]
    /\ commit_index' = 1
    /\ pcBM' = "commits"
    /\ UNCHANGED <<bandit_installed, repo_exists, repo_index, processed, vGit, OtherThanBM>>

output_file_of_OneName(hash) == "output.json"

\* line 201: the file <hash>.json in bandit_outputs_dir
output_file_of(hash) == hash \o ".json"

\* lines 201-221 and 35-45: what one pass of the loop does, in order; m is
\* the return of parse_bandit_results
commit_steps(commit, installed, m) ==
    LET output_file_ == output_file_of(commit.hash)
    IN  <<[op |-> "git checkout", arg |-> commit.hash],
          [op |-> "bandit -o", arg |-> output_file_]>>
        \o (IF ~installed
            THEN <<[op |-> "except", arg |-> commit.hash]>>
            ELSE <<[op |-> "parse_bandit_results", arg |-> output_file_],
                   [op |-> IF truthy(m) THEN "writerow" ELSE "no row", arg |-> commit.hash]>>)

\* lines 197-221, one pass of the loop.  run_bandit_on_commit checks the
\* commit out first (line 39); subprocess.run raises when the bandit
\* executable is absent; the exception is caught at line 220 before
\* parse_bandit_results is called.
ProcessCommit ==
    /\ pcBM = "commits"
    /\ commit_index <= Len(commits)
    /\ git_head' = [git_head EXCEPT ![repo_name] =
                       git_checkout(@, repo_name, commits[commit_index].hash)]
    /\ git_log' = Append(git_log, [repo |-> repo_name, cmd |-> "checkout",
                                    arg |-> commits[commit_index].hash, out |-> ""])
    /\ UNCHANGED git_branch
    /\ LET commit == commits[commit_index]
       IN  IF ~bandit_installed
           THEN /\ processed' = [processed EXCEPT ![repo_name] =
                      Append(@, [commit |-> commit, raised |-> TRUE,
                                 file |-> MissingFile, metrics |-> None,
                                 steps |-> commit_steps(commit, FALSE, None)])]
                /\ UNCHANGED results_csv
           ELSE \E file \in BanditOutputs(repo_index, commit_index) :
                \E m \in parse_bandit_results(file) :
                   /\ processed' = [processed EXCEPT ![repo_name] =
                         Append(@, [commit |-> commit, raised |-> FALSE,
                                    file |-> file, metrics |-> m,
                                    steps |-> commit_steps(commit, TRUE, m)])]
                   /\ results_csv' =
                         IF truthy(m)
                         THEN [results_csv EXCEPT ![repo_name].rows = Append(@, csv_row(commit, m))]
                         ELSE results_csv
    /\ commit_index' = commit_index + 1
    /\ UNCHANGED <<pcBM, bandit_installed, repo_exists, repo_index, repo_commits,
                   OtherThanBM>>

\* lines 223-232: results.csv is closed, main or master is checked out
ReturnToBranch ==
    /\ pcBM = "commits"
    /\ commit_index > Len(commits)
    /\ git_head' = [git_head EXCEPT ![repo_name] = return_to_branch(@, repo_name).head]
    /\ git_log' = git_log \o return_to_branch(git_head[repo_name], repo_name).commands
    /\ UNCHANGED git_branch
    /\ repo_index' = repo_index + 1
    /\ pcBM' = "repositories"
    /\ UNCHANGED <<bandit_installed, repo_exists, repo_commits, commit_index,
                   results_csv, processed, OtherThanBM>>

\* line 233
AllComplete ==
    /\ pcBM = "repositories"
    /\ repo_index > Len(repositories)
    /\ pcBM' = "done"
    /\ UNCHANGED <<bandit_installed, repo_exists, repo_index, repo_commits, commit_index,
                   results_csv, processed, vGit, OtherThanBM>>

NextBM == SkipRepository \/ OpenResults \/ ProcessCommit \/ ReturnToBranch \/ AllComplete

SpecBanditMain == InitBM /\ [][NextBM]_vars

SpecBanditGit == InitGit /\ [][NextBM]_vars

\* the output of the commit of a log entry was read and parsed
OutputParsed(entry) == ~entry.raised /\ Loadable(entry.file)

\* the commits processed so far whose output parsed, in processing order
ParsedCommits(r) == SelectSeq(processed[r], OutputParsed)

\* the rows of results.csv after the header
DataRows(r) == Tail(results_csv[r].rows)

\* the index in `repositories` of a repository
IndexOf(r) == CHOOSE i \in 1..Len(repositories) : repositories[i] = r

\* the loop over the repository's commits is over
Finished(r) == repo_index > IndexOf(r) \/ pcBM = "done"

\* C10: a commit whose output file is missing or not valid JSON gets None
\* from parse_bandit_results and no row, and the loop goes on to the next
\* commit; results.csv is the header row followed by one row per processed
\* commit whose output parsed, in processing order (the row starts with that
\* commit's hash, author, date and message), so there are never more data
\* rows than commits, and once the loop is over every commit was processed.
C10_RowsAreParsedCommits ==
    \A r \in RepoNames :
        /\ \A k \in 1..Len(processed[r]) :
              /\ processed[r][k].commit = repo_commits[r][k]
              /\ ~OutputParsed(processed[r][k]) => processed[r][k].metrics = None
              /\ OutputParsed(processed[r][k]) => processed[r][k].metrics # None
        /\ Len(processed[r]) <= Len(repo_commits[r])
        /\ (pcBM = "commits" /\ r = repo_name) => Len(processed[r]) = commit_index - 1
        /\ Finished(r) => Len(processed[r]) = Len(repo_commits[r])
        /\ ~results_csv[r].exists => processed[r] = <<>>
        /\ results_csv[r].exists =>
              /\ results_csv[r].rows[1] = Header
              /\ Len(DataRows(r)) = Len(ParsedCommits(r))
              /\ Len(DataRows(r)) <= Len(repo_commits[r])
              /\ \A k \in 1..Len(DataRows(r)) :
                    /\ Len(DataRows(r)[k]) = Len(Header)
                    /\ DataRows(r)[k][1] = ParsedCommits(r)[k].commit.hash
                    /\ DataRows(r)[k][2] = ParsedCommits(r)[k].commit.author
                    /\ DataRows(r)[k][3] = ParsedCommits(r)[k].commit.date
                    /\ DataRows(r)[k][4] = ParsedCommits(r)[k].commit.message

\* the first commit's output is not valid JSON, the loop went on and the
\* second commit's output parsed: one data row, of the second commit
C10_Witness ==
    /\ pcBM = "done"
    /\ Len(processed["bandit"]) = 2
    /\ processed["bandit"][1].file = InvalidJsonFile
    /\ Loadable(processed["bandit"][2].file)
    /\ Len(DataRows("bandit")) = 1
    /\ DataRows("bandit")[1][1] = repo_commits["bandit"][2].hash
    /\ \E k \in 1..Len(processed["flask"]) : processed["flask"][k].file = MissingFile

\* the git commands run in a repository, in the order they were run
RepoLog(r) == SelectSeq(git_log, LAMBDA e : e.repo = r)

\* main went through the repository's commit loop and the lines after it
Processed(r) == Finished(r) /\ results_csv[r].exists

\* C20 (as stated, its conclusion): no processed repository is left checked
\* out at an analysed commit when main moves on or ends
C20_NoRepositoryLeftAtCommit ==
    \A r \in RepoNames : Processed(r) => ~git_head[r].detached

\* C20 (what the code ensures): in a processed repository the commits were
\* checked out in order, then 'main', then -- iff `git branch --show-current`
\* did not print 'main' -- 'master', and nothing else; the commands of a
\* repository all come before those of the next one; the repository is
\* back on its branch if that branch is 'main' or 'master' (or if it had no
\* commit to check out)
C20_RestoreAfterLastCommit ==
    /\ \A i, j \in 1..Len(git_log) :
          i < j => IndexOf(git_log[i].repo) <= IndexOf(git_log[j].repo)
    /\ \A r \in RepoNames :
          LET L == RepoLog(r)
              n == Len(repo_commits[r])
          IN  /\ ~Processed(r) =>
                    /\ Len(L) <= n
                    /\ \A k \in 1..Len(L) : L[k].cmd = "checkout" /\ L[k].arg = repo_commits[r][k].hash
              /\ Processed(r) =>
                    /\ Len(L) \in {n + 2, n + 3}
                    /\ \A k \in 1..n : L[k].cmd = "checkout" /\ L[k].arg = repo_commits[r][k].hash
                    /\ L[n + 1].cmd = "checkout" /\ L[n + 1].arg = "main"
                    /\ L[n + 2].cmd = "branch --show-current"
                    /\ L[n + 2].out = "main" <=> git_branch[r] = "main"
                    /\ L[n + 2].out # "main" <=> Len(L) = n + 3
                    /\ Len(L) = n + 3 => L[n + 3].cmd = "checkout" /\ L[n + 3].arg = "master"
                    /\ (git_branch[r] \in {"main", "master"} \/ n = 0)
                          => git_head[r] = OnBranch(git_branch[r])
                    /\ (git_branch[r] \notin {"main", "master"} /\ n > 0)
                          => git_head[r] = Detached(repo_commits[r][n].hash)

\* C20: main ended after two repositories with commits, one on 'main', one
\* on 'master', and both are back on their branch
C20_Witness ==
    /\ pcBM = "done"
    /\ \E r1, r2 \in RepoNames :
          /\ Processed(r1) /\ Processed(r2)
          /\ Len(repo_commits[r1]) = MaxCommits /\ Len(repo_commits[r2]) > 0
          /\ git_branch[r1] = "main" /\ git_branch[r2] = "master"
          /\ git_head[r1] = OnBranch("main") /\ git_head[r2] = OnBranch("master")
          /\ Len(RepoLog(r2)) = Len(repo_commits[r2]) + 3

\* C20: main moved on from a repository that has neither 'main' nor 'master'
C20_WitnessOtherBranch ==
    /\ pcBM = "commits"
    /\ commit_index > 1
    /\ \E r \in RepoNames :
          /\ Processed(r)
          /\ git_branch[r] = "stable"
          /\ git_head[r].detached

\* C21: every pass of the commit loop, in list order, checks the commit out,
\* then runs bandit writing <hash>.json, then (unless running bandit raised)
\* parses that same file and last writes the row or skips it; the steps of a
\* commit are over before the next commit's; every row's commit_hash names
\* the file its metrics were parsed from
C21_CheckoutBanditParse ==
    \A r \in RepoNames :
        /\ \A k \in 1..Len(processed[r]) :
              LET e == processed[r][k]
                  hash == repo_commits[r][k].hash
              IN  /\ e.steps[1] = [op |-> "git checkout", arg |-> hash]
                  /\ e.steps[2] = [op |-> "bandit -o", arg |-> hash \o ".json"]
                  /\ e.raised => Len(e.steps) = 3 /\ e.steps[3].op = "except"
                  /\ ~e.raised =>
                        /\ Len(e.steps) = 4
                        /\ e.steps[3] = [op |-> "parse_bandit_results", arg |-> hash \o ".json"]
                        /\ e.steps[4].arg = hash
                        /\ e.steps[4].op = (IF e.metrics # None THEN "writerow" ELSE "no row")
        /\ \A k \in 1..Len(RepoLog(r)) :
              k <= Len(processed[r]) => RepoLog(r)[k].arg = processed[r][k].steps[1].arg
        /\ results_csv[r].exists =>
              \A j \in 1..Len(DataRows(r)) :
                 \E k \in 1..Len(processed[r]) :
                    /\ processed[r][k] = ParsedCommits(r)[j]
                    /\ Cardinality({i \in 1..k : OutputParsed(processed[r][i])}) = j
                    /\ processed[r][k].steps[3].arg = DataRows(r)[j][1] \o ".json"
                    /\ processed[r][k].steps[4].op = "writerow"

\* C21: the first commit's row was skipped, the second commit's written
C21_Witness ==
    /\ results_csv["manim"].exists
    /\ Len(processed["manim"]) = 2
    /\ ~processed["manim"][1].raised
    /\ processed["manim"][1].steps[4].op = "no row"
    /\ processed["manim"][2].steps[4].op = "writerow"
    /\ Len(DataRows("manim")) = 1

(***************************************************************************)
(* lab78_final/analyze_results.py: load_repository_results (sorting),      *)
(* answer_rq1, answer_rq2                                                  *)
(***************************************************************************)
SeverityLevels == <<"high", "medium", "low">>

\* the data rows of a results.csv: the commit's date and its three severity
\* counts.  The medium and low counts follow from the high count and the
\* row's position, so that each column ranges over every series of counts.
CsvRowSets ==
    UNION { { [i \in 1..n |->
                 [date |-> dates[i],
                  high_severity |-> highs[i],
                  medium_severity |-> (highs[i] + i) % (MaxCount + 1),
                  low_severity |-> MaxCount - highs[i]]] :
              dates \in [1..n -> 1..MaxDate], highs \in [1..n -> 0..MaxCount] } :
            n \in 1..MaxRows }

\* a float64 of pandas: NaN or a number
NaN == [nan |-> TRUE, v |-> 0]

Num(x) == [nan |-> FALSE, v |-> x]

\* a > b on floats: false when either is NaN
float_gt(a, b) == ~a.nan /\ ~b.nan /\ a.v > b.v

\* -x
float_neg(x) == IF x.nan THEN NaN ELSE Num(0 - x.v)

\* Python's max(a, b): the first argument unless the second compares greater
py_max(a, b) == IF float_gt(b, a) THEN b ELSE a

series_diff_Reversed(s) ==
    [i \in 1..Len(s) |-> IF i = 1 THEN NaN ELSE Num(s[i - 1] - s[i])]

\* Series.diff(): NaN for the first row, then the difference to the row before
series_diff(s) ==
    [i \in 1..Len(s) |-> IF i = 1 THEN NaN ELSE Num(s[i] - s[i - 1])]

\* Series.apply(lambda x: max(0, x))
apply_introduced(change) == [i \in 1..Len(change) |-> py_max(Num(0), change[i])]

\* Series.apply(lambda x: max(0, -x))
apply_fixed(change) == [i \in 1..Len(change) |-> py_max(Num(0), float_neg(change[i]))]

\* the three columns lines 114-120 (230-252) add for a severity level
with_changes(frame, level) ==
    LET change == series_diff(frame[level \o "_severity"])
        f1 == DictSet(frame, level \o "_severity_change", change)
        f2 == DictSet(f1, level \o "_severity_introduced", apply_introduced(change))
    IN  DictSet(f2, level \o "_severity_fixed", apply_fixed(change))

\* df.sort_values("date"): the orders of the rows in which the dates ascend
\* (the default quicksort fixes no order among rows of equal date)
SortedOrders(rows) ==
    {p \in [1..Len(rows) -> 1..Len(rows)] :
        /\ \A i, j \in 1..Len(rows) : p[i] = p[j] => i = j
        /\ \A i \in 1..(Len(rows) - 1) : rows[p[i]].date <= rows[p[i + 1]].date}

InitRQ ==
    /\ IdleM6 /\ IdleM5 /\ IdleLC /\ IdleLab6 /\ IdleBP /\ IdleBM /\ IdleCsv /\ IdleAC /\ IdleCov /\ IdleAR /\ IdleTG /\ IdleGit /\ IdleGL /\ IdleRP /\ IdleVC /\ IdlePC /\ IdleCF /\ IdleTS
    /\ pcRQ = "load"
    /\ rq_rows \in CsvRowSets
    /\ df = EmptyDict

\* load_repository_results, lines 18-20 and 34
LoadRepositoryResults ==
    /\ pcRQ = "load"
    /\ \E p \in SortedOrders(rq_rows) :
          df' = [c \in {"date", "high_severity", "medium_severity", "low_severity"} |->
                    [i \in 1..Len(rq_rows) |-> rq_rows[p[i]][c]]]
    /\ pcRQ' = "rq1"
    /\ UNCHANGED <<rq_rows, OtherThanRQ>>

\* answer_rq1, lines 112-120
AnswerRq1 ==
    /\ pcRQ = "rq1"
    /\ df' = with_changes(df, "high")
    /\ pcRQ' = "rq2"
    /\ UNCHANGED <<rq_rows, OtherThanRQ>>

\* answer_rq2, lines 228-252
AnswerRq2 ==
    /\ pcRQ = "rq2"
    /\ df' = with_changes(with_changes(with_changes(df, "high"), "medium"), "low")
    /\ pcRQ' = "rq3"
    /\ UNCHANGED <<rq_rows, OtherThanRQ>>

NextRQ == LoadRepositoryResults \/ AnswerRq1 \/ AnswerRq2

SpecRQ == InitRQ /\ [][NextRQ]_vars

Max0(x) == IF x > 0 THEN x ELSE 0

\* the levels whose columns have been computed
LevelsDone == IF pcRQ = "rq2" THEN {"high"}
              ELSE IF pcRQ = "rq3" THEN {"high", "medium", "low"}
              ELSE {}

\* C11: in the frame, ordered by ascending date, for every computed level
\* the first commit has introduced = fixed = 0, every later commit has
\* introduced = max(0, count - previous count) and
\* fixed = max(0, previous count - count), and no commit has both positive.
C11_IntroducedAndFixed ==
    \A level \in LevelsDone :
        LET count == df[level \o "_severity"]
            introduced == df[level \o "_severity_introduced"]
            fixed == df[level \o "_severity_fixed"]
        IN  /\ \A i \in 1..(Len(count) - 1) : df["date"][i] <= df["date"][i + 1]
            /\ Len(introduced) = Len(count) /\ Len(fixed) = Len(count)
            /\ introduced[1] = Num(0) /\ fixed[1] = Num(0)
            /\ \A i \in 2..Len(count) :
                  /\ introduced[i] = Num(Max0(count[i] - count[i - 1]))
                  /\ fixed[i] = Num(Max0(count[i - 1] - count[i]))
            /\ \A i \in 1..Len(count) :
                  ~(float_gt(introduced[i], Num(0)) /\ float_gt(fixed[i], Num(0)))

\* three commits listed newest first: the high count rises and then falls,
\* the low count falls and then rises
C11_Witness ==
    /\ pcRQ = "rq3"
    /\ Len(rq_rows) = 3
    /\ rq_rows[1].date > rq_rows[3].date
    /\ df["high_severity_introduced"] = <<Num(0), Num(2), Num(0)>>
    /\ df["high_severity_fixed"] = <<Num(0), Num(0), Num(1)>>
    /\ df["low_severity_introduced"] = <<Num(0), Num(0), Num(1)>>

(***************************************************************************)
(* The unique_cwes column of results.csv: written by                       *)
(* run_bandit_analysis.py main (csv.writer), read back by                  *)
(* analyze_results.py load_repository_results (pandas.read_csv).  Cell     *)
(* texts are sequences of characters.                                      *)
(***************************************************************************)
\* CWE ids as parse_bandit_results stores them: strings of digits
CweIds == {<<"7", "8">>, <<"2", "0">>}

\* the lists parse_bandit_results returns as unique_cwes
CweLists == UNION {ListsOf(S) : S \in SUBSET CweIds}

\* ','.join(list) on character sequences
RECURSIVE join_chars(_, _)
join_chars(sep, list) ==
    IF Len(list) = 0 THEN <<>>
    ELSE IF Len(list) = 1 THEN list[1]
    ELSE list[1] \o sep \o join_chars(sep, Tail(list))

HasChar(text, c) == \E i \in 1..Len(text) : text[i] = c

\* every quote character doubled
RECURSIVE DoubleQuotes(_)
DoubleQuotes(text) ==
    IF text = <<>> THEN <<>>
    ELSE (IF Head(text) = "\"" THEN <<"\"", "\"">> ELSE <<Head(text)>>) \o DoubleQuotes(Tail(text))

\* csv.writer with the default QUOTE_MINIMAL: a field holding the delimiter
\* or the quote character is wrapped in quotes
csv_write_field(text) ==
    IF HasChar(text, ",") \/ HasChar(text, "\"")
    THEN <<"\"">> \o DoubleQuotes(text) \o <<"\"">>
    ELSE text

\* doubled quotes undone
RECURSIVE UndoubleQuotes(_)
UndoubleQuotes(text) ==
    IF text = <<>> THEN <<>>
    ELSE IF Len(text) >= 2 /\ text[1] = "\"" /\ text[2] = "\""
    THEN <<"\"">> \o UndoubleQuotes(Tail(Tail(text)))
    ELSE <<Head(text)>> \o UndoubleQuotes(Tail(text))

\* the text of a field as the CSV parser of pandas reads it
csv_read_field(field) ==
    IF Len(field) >= 2 /\ field[1] = "\"" /\ field[Len(field)] = "\""
    THEN UndoubleQuotes(SubSeq(field, 2, Len(field) - 1))
    ELSE field

\* the text is a decimal integer
is_numeric(text) == text # <<>> /\ \A i \in 1..Len(text) : IsDigit(text[i])

DigitValue(c) == (CHOOSE d \in 1..10 : DigitChars[d] = c) - 1

\* the number a decimal text denotes
RECURSIVE to_number(_)
to_number(text) ==
    IF text = <<>> THEN 0
    ELSE 10 * to_number(SubSeq(text, 1, Len(text) - 1)) + DigitValue(text[Len(text)])

\* values of a pandas column: NaN, a float64, a str
NaNCell == [kind |-> "nan"]

FloatCell(x) == [kind |-> "float", v |-> x]

StrCell(text) == [kind |-> "str", s |-> text]

\* pd.read_csv on one column: an empty field is NaN; when every other field
\* is a number the column is numeric (float64), otherwise every other field
\* stays a str
read_csv_column(fields) ==
    LET texts == [i \in 1..Len(fields) |-> csv_read_field(fields[i])]
        numeric == \A i \in 1..Len(texts) : texts[i] = <<>> \/ is_numeric(texts[i])
    IN  [i \in 1..Len(texts) |->
            IF texts[i] = <<>> THEN NaNCell
            ELSE IF numeric THEN FloatCell(to_number(texts[i]))
            ELSE StrCell(texts[i])]

\* text.split(sep) for a one-character separator
RECURSIVE split(_, _)
split(text, sep) ==
    IF ~HasChar(text, sep) THEN <<text>>
    ELSE LET i == CHOOSE k \in 1..Len(text) :
                      text[k] = sep /\ \A j \in 1..(k - 1) : text[j] # sep
         IN  <<SubSeq(text, 1, i - 1)>> \o split(SubSeq(text, i + 1, Len(text)), sep)

cwe_cell_to_list_NumberAsId(x) ==
    IF x.kind = "nan" THEN [raised |-> FALSE, value |-> <<>>]
    ELSE IF x.kind = "str"
    THEN [raised |-> FALSE, value |-> IF x.s # <<>> THEN split(x.s, ",") ELSE <<>>]
    ELSE [raised |-> FALSE, value |-> <<x.v>>]

\* lambda x: [] if pd.isna(x) else x.split(",") if x else []
\* a float has no split: AttributeError unless the float is 0.0 (false)
cwe_cell_to_list(x) ==
    IF x.kind = "nan" THEN [raised |-> FALSE, value |-> <<>>]
    ELSE IF x.kind = "str"
    THEN [raised |-> FALSE, value |-> IF x.s # <<>> THEN split(x.s, ",") ELSE <<>>]
    ELSE IF x.v # 0 THEN [raised |-> TRUE, value |-> <<>>]
    ELSE [raised |-> FALSE, value |-> <<>>]

\* Series.apply: the exception of an element ends the call
apply_cwe_lambda(column) ==
    LET r == [i \in 1..Len(column) |-> cwe_cell_to_list(column[i])]
    IN  IF \E i \in 1..Len(column) : r[i].raised
        THEN [raised |-> TRUE, column |-> <<>>]
        ELSE [raised |-> FALSE, column |-> [i \in 1..Len(column) |-> r[i].value]]

InitCsv ==
    /\ IdleM6 /\ IdleM5 /\ IdleLC /\ IdleLab6 /\ IdleBP /\ IdleBM /\ IdleRQ /\ IdleAC /\ IdleCov /\ IdleAR /\ IdleTG /\ IdleGit /\ IdleGL /\ IdleRP /\ IdleVC /\ IdlePC /\ IdleCF /\ IdleTS
    /\ pcCsv = "write"
    /\ cwe_lists \in UNION {[1..n -> CweLists] : n \in 1..MaxRows}
    /\ csv_column = <<>>
    /\ cwe_frame = <<>>
    /\ cwe_loaded = [raised |-> FALSE, column |-> <<>>]

\* run_bandit_analysis.py line 218, one writerow per commit
WriteCweColumn ==
    /\ pcCsv = "write"
    /\ csv_column' = [i \in 1..Len(cwe_lists) |->
                         csv_write_field(join_chars(<<",">>, cwe_lists[i]))]
    /\ pcCsv' = "read_csv"
    /\ UNCHANGED <<cwe_lists, cwe_frame, cwe_loaded, OtherThanCsv>>

\* analyze_results.py line 18
ReadCsv ==
    /\ pcCsv = "read_csv"
    /\ cwe_frame' = read_csv_column(csv_column)
    /\ pcCsv' = "apply"
    /\ UNCHANGED <<cwe_lists, csv_column, cwe_loaded, OtherThanCsv>>

\* analyze_results.py lines 21-23
ApplyCweLambda ==
    /\ pcCsv = "apply"
    /\ cwe_loaded' = apply_cwe_lambda(cwe_frame)
    /\ pcCsv' = "loaded"
    /\ UNCHANGED <<cwe_lists, csv_column, cwe_frame, OtherThanCsv>>

NextCsv == WriteCweColumn \/ ReadCsv \/ ApplyCweLambda

SpecCweColumn == InitCsv /\ [][NextCsv]_vars

\* C12 as stated: every list written into the column is read back as the
\* same list of id strings.
C12_RoundTrip ==
    pcCsv = "loaded" => ~cwe_loaded.raised /\ cwe_loaded.column = cwe_lists

\* some row of the column holds two ids or more
SomeRowJoined == \E i \in 1..Len(cwe_lists) : Len(cwe_lists[i]) >= 2

\* C12, what the code does: the lists are read back when some row of the
\* column holds a comma-joined list or every row is empty; when rows hold
\* single ids and no row holds two, the column is read as numbers and the
\* lambda raises AttributeError.
C12_RoundTripUnlessNumericColumn ==
    pcCsv = "loaded" =>
        IF SomeRowJoined \/ \A i \in 1..Len(cwe_lists) : cwe_lists[i] = <<>>
        THEN ~cwe_loaded.raised /\ cwe_loaded.column = cwe_lists
        ELSE cwe_loaded.raised

\* an empty list, a single id and two ids in one column are read back
C12_Witness ==
    /\ pcCsv = "loaded"
    /\ cwe_lists = << <<>>, << <<"7", "8">> >>, << <<"2", "0">>, <<"7", "8">> >> >>
    /\ ~cwe_loaded.raised
    /\ cwe_loaded.column = cwe_lists

\* a column of an empty list and a single id: the load raises
C12_WitnessRaises ==
    /\ pcCsv = "loaded"
    /\ cwe_lists = << <<>>, << <<"7", "8">> >> >>
    /\ cwe_frame = <<NaNCell, FloatCell(78)>>
    /\ cwe_loaded.raised

(***************************************************************************)
(* lab5_final: analyze_coverage of compare-test-suites.py and of           *)
(* improved-coverage.py.  A path is the sequence of its pieces, "/" being  *)
(* a piece of its own; the path is their concatenation.                    *)
(***************************************************************************)
AnalyzeModules == {"compare-test-suites", "improved-coverage"}

PathSamples ==
    { <<"algorithms", "/", "sort", "/", "x.py">>,
      <<"algorithms", "/", "sort", "/", "__init__.py">>,
      <<"algorithms", "/", "tests", "/", "test_x.py">>,
      <<"tests", "/", "test_x.py">>,
      <<"algorithms", "/", "my", "__init__.py">> }

\* the entry of a file in coverage.json: with a summary, or without one
FileDataSamples ==
    {[missing_lines |-> <<>>]} \cup
    { [summary |-> [covered_lines |-> x[2], num_statements |-> x[1]],
       missing_lines |-> [i \in 1..(x[1] - x[2]) |-> i]] :
      x \in {y \in (0..MaxStatements) \X (0..MaxStatements) : y[2] <= y[1]} }

TotalsSample ==
    [percent_covered |-> 50, percent_covered_display |-> <<"5", "0">>]

\* the `files` of a report: at most MaxFiles of the sample paths
FilesSamples ==
    UNION {[P -> FileDataSamples] : P \in {Q \in SUBSET PathSamples : Cardinality(Q) <= MaxFiles}}

\* the data analyze_coverage is called with: {}, a report without "files",
\* a report without "totals", a full report
CoverageData ==
    {EmptyDict, [totals |-> TotalsSample]} \cup
    {[files |-> fs] : fs \in FilesSamples} \cup
    {[files |-> fs, totals |-> TotalsSample] : fs \in FilesSamples}

\* '/tests/' in file_path
path_contains_tests(path) ==
    \E i \in 1..(Len(path) - 2) :
        path[i] = "/" /\ path[i + 1] = "tests" /\ path[i + 2] = "/"

\* file_path.endswith('__init__.py')
path_endswith_init(path) == Len(path) > 0 /\ path[Len(path)] = "__init__.py"

skip_file_TestsOnly(path) == path_contains_tests(path)

\* the test of line 42 (144)
skip_file(path) == path_contains_tests(path) \/ path_endswith_init(path)

\* the loop of lines 40-58 (142-160) over the files in the order `paths`
RECURSIVE coverage_loop(_, _, _)
coverage_loop(files, paths, acc) ==
    IF paths = <<>> THEN acc
    ELSE LET file_path == Head(paths)
             file_data == files[file_path]
             file_covered_lines == DictGet(DictGet(file_data, "summary", EmptyDict), "covered_lines", 0)
             file_total_lines == DictGet(DictGet(file_data, "summary", EmptyDict), "num_statements", 0)
         IN  IF skip_file(file_path) \/ ~(file_total_lines > 0)
             THEN coverage_loop(files, Tail(paths), acc)
             ELSE coverage_loop(files, Tail(paths),
                    [total_lines |-> acc.total_lines + file_total_lines,
                     covered_lines |-> acc.covered_lines + file_covered_lines,
                     file_coverage |-> DictSet(acc.file_coverage, file_path,
                        [total_lines |-> file_total_lines,
                         covered_lines |-> file_covered_lines,
                         line_coverage |-> Quotient(file_covered_lines, file_total_lines),
                         missing_lines |-> DictGet(file_data, "missing_lines", <<>>)])])

\* the number 0 as a quotient
Zero == Quotient(0, 1)

\* text.strip('%')
RECURSIVE strip_percent(_)
strip_percent(text) ==
    IF text # <<>> /\ Head(text) = "%" THEN strip_percent(Tail(text))
    ELSE IF text # <<>> /\ text[Len(text)] = "%" THEN strip_percent(SubSeq(text, 1, Len(text) - 1))
    ELSE text

\* line 62 of compare-test-suites.py, lines 164-165 of improved-coverage.py
branch_coverage_of(module, data) ==
    LET totals == DictGet(data, "totals", EmptyDict)
    IN  IF module = "compare-test-suites"
        THEN IF "percent_covered" \in DOMAIN totals
             THEN Quotient(totals["percent_covered"], 100) ELSE Zero
        ELSE Quotient(to_number(strip_percent(
                 DictGet(totals, "percent_covered_display", <<"0", "%">>))), 100)

\* analyze_coverage(data) of the module, the files of the dict being
\* iterated in the order `paths`
analyze_coverage(module, data, paths) ==
    IF module = "compare-test-suites" /\ data = EmptyDict
    THEN [line_coverage |-> Zero, branch_coverage |-> Zero, file_coverage |-> EmptyDict]
    ELSE LET acc == coverage_loop(DictGet(data, "files", EmptyDict), paths,
                        [total_lines |-> 0, covered_lines |-> 0, file_coverage |-> EmptyDict])
             r == [line_coverage |-> IF acc.total_lines > 0
                                     THEN Quotient(acc.covered_lines, acc.total_lines)
                                     ELSE Zero,
                   branch_coverage |-> branch_coverage_of(module, data),
                   file_coverage |-> acc.file_coverage]
         IN  IF module = "improved-coverage"
             THEN [line_coverage |-> r.line_coverage, branch_coverage |-> r.branch_coverage,
                   function_coverage |-> Zero, file_coverage |-> r.file_coverage]
             ELSE r

InitAC ==
    /\ IdleM6 /\ IdleM5 /\ IdleLC /\ IdleLab6 /\ IdleBP /\ IdleBM /\ IdleRQ /\ IdleCsv /\ IdleCov /\ IdleAR /\ IdleTG /\ IdleGit /\ IdleGL /\ IdleRP /\ IdleVC /\ IdlePC /\ IdleCF /\ IdleTS
    /\ pcAC = "call"
    /\ ac_module \in AnalyzeModules
    /\ cov_data \in CoverageData
    /\ coverage_result = EmptyDict

\* the call analyze_coverage(data)
AnalyzeCoverage ==
    /\ pcAC = "call"
    /\ \E paths \in ListsOf(DOMAIN DictGet(cov_data, "files", EmptyDict)) :
          coverage_result' = analyze_coverage(ac_module, cov_data, paths)
    /\ pcAC' = "returned"
    /\ UNCHANGED <<ac_module, cov_data, OtherThanAC>>

NextAC == AnalyzeCoverage

SpecAnalyzeCoverage == InitAC /\ [][NextAC]_vars

\* the files of the data
FilesOf(data) == IF "files" \in DOMAIN data THEN data["files"] ELSE EmptyDict

\* num_statements and covered_lines of a file's summary, 0 without one
Statements(fd) == IF "summary" \in DOMAIN fd THEN fd["summary"]["num_statements"] ELSE 0

Covered(fd) == IF "summary" \in DOMAIN fd THEN fd["summary"]["covered_lines"] ELSE 0

\* the path holds "/tests/": a piece "tests" between two "/"
HoldsTestsDir(path) ==
    \E i \in 2..(Len(path) - 1) : path[i] = "tests" /\ path[i - 1] = "/" /\ path[i + 1] = "/"

\* the files analyze_coverage counts
CountedFiles(data) ==
    {p \in DOMAIN FilesOf(data) :
        /\ ~HoldsTestsDir(p)
        /\ p[Len(p)] # "__init__.py"
        /\ Statements(FilesOf(data)[p]) > 0}

\* the statements and the covered lines of the files S, summed
RECURSIVE SumStatements(_, _)
SumStatements(files, S) ==
    IF S = {} THEN 0
    ELSE LET x == CHOOSE y \in S : TRUE IN Statements(files[x]) + SumStatements(files, S \ {x})

RECURSIVE SumCovered(_, _)
SumCovered(files, S) ==
    IF S = {} THEN 0
    ELSE LET x == CHOOSE y \in S : TRUE IN Covered(files[x]) + SumCovered(files, S \ {x})

\* C13: line_coverage is the covered lines over the statements of the counted
\* files (no '/tests/' in the path, no '__init__.py' at its end,
\* num_statements > 0), file_coverage has an entry for exactly those files,
\* and line_coverage is 0 when they have no statements at all.
C13_LineCoverage ==
    pcAC = "returned" =>
        LET files == FilesOf(cov_data)
            counted == CountedFiles(cov_data)
            total == SumStatements(files, counted)
            covered == SumCovered(files, counted)
            lc == coverage_result.line_coverage
        IN  /\ DOMAIN coverage_result.file_coverage = counted
            /\ \A p \in counted :
                  /\ coverage_result.file_coverage[p].total_lines = Statements(files[p])
                  /\ coverage_result.file_coverage[p].covered_lines = Covered(files[p])
            /\ lc[2] > 0
            /\ lc[1] * total = covered * lc[2]
            /\ total = 0 => lc[1] = 0

\* two counted files, one of them under a leading tests/ directory, and the
\* coverage is 3 of 4 statements
C13_Witness ==
    /\ pcAC = "returned"
    /\ ac_module = "improved-coverage"
    /\ CountedFiles(cov_data) =
          {<<"algorithms", "/", "sort", "/", "x.py">>, <<"tests", "/", "test_x.py">>}
    /\ coverage_result.line_coverage = <<3, 4>>

\* a report whose only files are skipped: line_coverage is 0
C13_WitnessZero ==
    /\ pcAC = "returned"
    /\ Cardinality(DOMAIN FilesOf(cov_data)) = 2
    /\ CountedFiles(cov_data) = {}
    /\ \E p \in DOMAIN FilesOf(cov_data) : Statements(FilesOf(cov_data)[p]) > 0
    /\ coverage_result.line_coverage = <<0, 1>>

(***************************************************************************)
(* lab5_final/improved-coverage.py: run_tests_and_record_coverage('a'),    *)
(* load_coverage_data, generate_empty_coverage_data                        *)
(***************************************************************************)
\* what `pytest tests --cov=algorithms --cov-report=json` does: subprocess.run
\* raises (no pytest executable), pytest runs without writing coverage.json
\* (no pytest-cov, usage error), or coverage.json is written
PytestOutcomes == {"raises", "no_json", "json"}

\* what analyze_coverage_manually does when the coverage module is there:
\* an exception before json_report wrote the file (e.g. no data to report),
\* or coverage.json is written
ManualOutcomes == {"raises", "json"}

\* the .py files os.walk("algorithms") finds, with their counts of lines that
\* are neither blank nor comments: no directory, or two files
AlgorithmsTrees ==
    { EmptyDict,
      [p \in {<<"algorithms", "/", "sort", "/", "x.py">>,
              <<"algorithms", "/", "sort", "/", "__init__.py">>} |->
          IF p[Len(p)] = "x.py" THEN 2 ELSE 0] }

\* reports of coverage.py
PytestReport ==
    [files |-> [p \in {<<"algorithms", "/", "sort", "/", "x.py">>} |->
                  [summary |-> [covered_lines |-> 1, num_statements |-> 2],
                   missing_lines |-> <<2>>]],
     totals |-> TotalsSample]

ManualReport ==
    [files |-> [p \in {<<"algorithms", "/", "sort", "/", "x.py">>} |->
                  [summary |-> [covered_lines |-> 2, num_statements |-> 2],
                   missing_lines |-> <<>>]],
     totals |-> [percent_covered |-> 100, percent_covered_display |-> <<"1", "0", "0">>]]

\* the line counts of the tree, summed
RECURSIVE SumLineCounts(_, _)
SumLineCounts(tree, S) ==
    IF S = {} THEN 0
    ELSE LET x == CHOOSE y \in S : TRUE IN tree[x] + SumLineCounts(tree, S \ {x})

\* generate_empty_coverage_data: the dict it builds, writes to coverage.json
\* and returns
generate_empty_coverage_data(tree) ==
    [meta |-> [version |-> "7.7.1", timestamp |-> "2025-02-06T00:00:00",
               branch_coverage |-> TRUE, show_contexts |-> FALSE],
     files |-> [p \in DOMAIN tree |->
                  [executed_lines |-> <<>>,
                   summary |-> [covered_lines |-> 0, num_statements |-> tree[p],
                                percent_covered |-> 0,
                                percent_covered_display |-> <<"0", "%">>,
                                missing_lines |-> tree[p], excluded_lines |-> 0],
                   missing_lines |-> [i \in 1..tree[p] |-> i],
                   excluded_lines |-> <<>>]],
     totals |-> [covered_lines |-> 0,
                 num_statements |-> SumLineCounts(tree, DOMAIN tree),
                 percent_covered |-> 0,
                 percent_covered_display |-> <<"0", "%">>,
                 missing_lines |-> SumLineCounts(tree, DOMAIN tree),
                 excluded_lines |-> 0]]

improved_load_coverage_data_NoExcept(file, tree) ==
    IF ~Loadable(file) THEN [raised |-> TRUE, data |-> None, file |-> file]
    ELSE [raised |-> FALSE, data |-> file.data, file |-> file]

\* load_coverage_data of improved-coverage.py: what it returns, whether it
\* raises (JSONDecodeError is not caught), and coverage.json afterwards
improved_load_coverage_data(file, tree) ==
    IF ~file.exists
    THEN [raised |-> FALSE, data |-> generate_empty_coverage_data(tree),
          file |-> JsonFile(generate_empty_coverage_data(tree))]
    ELSE IF ~file.valid THEN [raised |-> TRUE, data |-> None, file |-> file]
    ELSE [raised |-> FALSE, data |-> file.data, file |-> file]

NoTrace == [after_pytest |-> FALSE, manual_tried |-> FALSE, after_manual |-> FALSE,
            generated |-> FALSE]

\* either run_tests_and_record_coverage('a') is called, or load_coverage_data()
\* alone; coverage.json may be there from an earlier run
InitCov ==
    /\ IdleM6 /\ IdleM5 /\ IdleLC /\ IdleLab6 /\ IdleBP /\ IdleBM /\ IdleRQ /\ IdleCsv /\ IdleAC /\ IdleAR /\ IdleTG /\ IdleGit /\ IdleGL /\ IdleRP /\ IdleVC /\ IdlePC /\ IdleCF /\ IdleTS
    /\ pcCov \in {"pytest", "load_only"}
    /\ cov_env \in [pytest : PytestOutcomes, HAS_COVERAGE_MODULE : BOOLEAN,
                    manual : ManualOutcomes, tree : AlgorithmsTrees]
    /\ coverage_json \in {MissingFile, InvalidJsonFile, JsonFile(ManualReport)}
    /\ suite_a_json = MissingFile
    /\ cov_trace = NoTrace
    /\ cov_loaded = None
    /\ cov_analysis = None

\* lines 236-247
RunPytest ==
    /\ pcCov = "pytest"
    /\ coverage_json' = IF cov_env.pytest = "json" THEN JsonFile(PytestReport)
                        ELSE coverage_json
    /\ cov_trace' = [cov_trace EXCEPT !.after_pytest = coverage_json'.exists]
    /\ pcCov' = "manual"
    /\ UNCHANGED <<cov_env, suite_a_json, cov_loaded, cov_analysis, OtherThanCov>>

\* lines 250-254: analyze_coverage_manually when coverage.json does not
\* exist; its exception is caught at line 253
ManualAnalysis ==
    /\ pcCov = "manual"
    /\ IF coverage_json.exists
       THEN /\ coverage_json' = coverage_json
            /\ cov_trace' = [cov_trace EXCEPT !.after_manual = TRUE]
       ELSE /\ coverage_json' =
                  IF ~cov_env.HAS_COVERAGE_MODULE
                  THEN JsonFile(generate_empty_coverage_data(cov_env.tree))
                  ELSE IF cov_env.manual = "json" THEN JsonFile(ManualReport)
                  ELSE coverage_json
            /\ cov_trace' = [cov_trace EXCEPT !.manual_tried = TRUE,
                                              !.after_manual = coverage_json'.exists]
    /\ pcCov' = "save"
    /\ UNCHANGED <<cov_env, suite_a_json, cov_loaded, cov_analysis, OtherThanCov>>

\* lines 257-265
SaveSuiteCopy ==
    /\ pcCov = "save"
    /\ IF coverage_json.exists
       THEN /\ coverage_json' = coverage_json
            /\ cov_trace' = cov_trace
       ELSE /\ coverage_json' = JsonFile(generate_empty_coverage_data(cov_env.tree))
            /\ cov_trace' = [cov_trace EXCEPT !.generated = TRUE]
    /\ suite_a_json' = coverage_json'
    /\ pcCov' = "load"
    /\ UNCHANGED <<cov_env, cov_loaded, cov_analysis, OtherThanCov>>

\* line 268, or the call of load_coverage_data alone
LoadCoverageData ==
    /\ pcCov \in {"load", "load_only"}
    /\ LET r == improved_load_coverage_data(coverage_json, cov_env.tree)
       IN  /\ cov_loaded' = r.data
           /\ coverage_json' = r.file
           /\ pcCov' = IF r.raised THEN "raised"
                       ELSE IF pcCov = "load" THEN "analyze" ELSE "returned"
    /\ UNCHANGED <<cov_env, suite_a_json, cov_trace, cov_analysis, OtherThanCov>>

\* line 269
AnalyzeLoaded ==
    /\ pcCov = "analyze"
    /\ \E paths \in ListsOf(DOMAIN DictGet(cov_loaded, "files", EmptyDict)) :
          cov_analysis' = analyze_coverage("improved-coverage", cov_loaded, paths)
    /\ pcCov' = "analyzed"
    /\ UNCHANGED <<cov_env, coverage_json, suite_a_json, cov_trace, cov_loaded, OtherThanCov>>

NextCov == RunPytest \/ ManualAnalysis \/ SaveSuiteCopy \/ LoadCoverageData \/ AnalyzeLoaded

SpecImprovedCoverage == InitCov /\ [][NextCov]_vars

\* coverage data: a dict with "files" and "totals"
IsCoverageData(d) == d # None /\ "files" \in DOMAIN d /\ "totals" \in DOMAIN d

\* C14: the manual analysis is tried iff coverage.json does not exist after
\* the pytest attempt; generate_empty_coverage_data creates the file iff it
\* still does not exist after that; coverage.json exists when it is loaded
\* and, unless it holds text that is not JSON, the analysis step receives
\* coverage data and returns; load_coverage_data called on a missing file
\* returns the generated empty data without raising.
C14_AnalysisAlwaysGetsData ==
    /\ pcCov \in {"save", "load", "analyze", "analyzed", "raised"} /\ cov_trace # NoTrace =>
          cov_trace.manual_tried = ~cov_trace.after_pytest
    /\ pcCov \in {"load", "analyze", "analyzed"} =>
          /\ cov_trace.generated = ~cov_trace.after_manual
          /\ coverage_json.exists
          /\ suite_a_json = coverage_json
    /\ pcCov = "raised" => coverage_json = InvalidJsonFile
    /\ pcCov \in {"analyze", "analyzed"} => IsCoverageData(cov_loaded)
    /\ pcCov = "analyzed" => cov_analysis # None /\ cov_analysis.line_coverage[2] > 0
    /\ pcCov = "returned" =>
          /\ IsCoverageData(cov_loaded)
          /\ coverage_json = JsonFile(cov_loaded)

\* pytest cannot be run, the coverage module raises, and the analysis gets
\* the generated empty data of the two files of algorithms/
C14_Witness ==
    /\ pcCov = "analyzed"
    /\ cov_env.pytest = "raises"
    /\ cov_env.HAS_COVERAGE_MODULE /\ cov_env.manual = "raises"
    /\ cov_trace = [after_pytest |-> FALSE, manual_tried |-> TRUE, after_manual |-> FALSE,
                    generated |-> TRUE]
    /\ cov_loaded = generate_empty_coverage_data(cov_env.tree)
    /\ Cardinality(DOMAIN cov_loaded.files) = 2
    /\ cov_analysis.line_coverage = <<0, 1>>

\* load_coverage_data alone on a missing coverage.json
C14_WitnessLoadOnly ==
    /\ pcCov = "returned"
    /\ cov_loaded = generate_empty_coverage_data(cov_env.tree)
    /\ cov_loaded.totals.num_statements = 2

(***************************************************************************)
(* lab78_final/analyze_results.py: main                                    *)
(***************************************************************************)
\* a results.csv of run_bandit_analysis.py, by the unique_cwes lists of its
\* data rows: only the header; one commit without CWE; two commits, one of
\* them with two ids; one commit with a single id
CsvSamples ==
    { NoCsv,
      [exists |-> TRUE, rows |-> <<>>],
      [exists |-> TRUE, rows |-> << <<>> >>],
      [exists |-> TRUE, rows |-> << << <<"7", "8">> >>, << <<"2", "0">>, <<"7", "8">> >> >>],
      [exists |-> TRUE, rows |-> << << <<"7", "8">> >> >>] }

\* the unique_cwes fields csv.writer wrote for the rows
fields_of(rows) == [i \in 1..Len(rows) |-> csv_write_field(join_chars(<<",">>, rows[i]))]

load_repository_results_KeepsEmpty(file) ==
    IF ~file.exists THEN [raised |-> FALSE, df |-> None]
    ELSE LET r == apply_cwe_lambda(read_csv_column(fields_of(file.rows)))
         IN  IF r.raised THEN [raised |-> TRUE, df |-> None]
             ELSE [raised |-> FALSE, df |-> [unique_cwes |-> r.column]]

\* load_repository_results: None for a missing file (line 16) and for a
\* file without data rows (line 27); the lambda of line 22 may raise
load_repository_results(file) ==
    IF ~file.exists THEN [raised |-> FALSE, df |-> None]
    ELSE LET r == apply_cwe_lambda(read_csv_column(fields_of(file.rows)))
         IN  IF r.raised THEN [raised |-> TRUE, df |-> None]
             ELSE IF Len(r.column) = 0 THEN [raised |-> FALSE, df |-> None]
             ELSE [raised |-> FALSE, df |-> [unique_cwes |-> r.column]]

\* the ids of all rows of a frame, one after the other (lines 70-72)
RECURSIVE all_cwes_of(_)
all_cwes_of(column) ==
    IF column = <<>> THEN <<>> ELSE Head(column) \o all_cwes_of(Tail(column))

\* plot_individual_repository_metrics: the summary it returns
plot_individual_repository_metrics(repo, frame) ==
    LET all_cwes == all_cwes_of(frame.unique_cwes)
    IN  [repo_name |-> repo,
         total_commits |-> Len(frame.unique_cwes),
         unique_cwes_count |-> Cardinality({all_cwes[i] : i \in 1..Len(all_cwes)})]

\* the repo_stats of answer_rq1 (lines 162-185) and answer_rq2 (356-389):
\* one entry per repository of repositories_data
repo_stats_of(data) ==
    [r \in DOMAIN data |-> [total_commits |-> Len(data[r].unique_cwes)]]

\* repository_top_cwes of answer_rq3
repository_top_cwes_of(data) ==
    [r \in DOMAIN data |->
        LET all_cwes == all_cwes_of(data[r].unique_cwes)
        IN  {all_cwes[i] : i \in 1..Len(all_cwes)}]

InitAR ==
    /\ IdleM6 /\ IdleM5 /\ IdleLC /\ IdleLab6 /\ IdleBP /\ IdleBM /\ IdleRQ /\ IdleCsv /\ IdleAC /\ IdleCov /\ IdleTG /\ IdleGit /\ IdleGL /\ IdleRP /\ IdleVC /\ IdlePC /\ IdleCF /\ IdleTS
    /\ pcAR = "loading"
    /\ ar_csv \in [RepoNames -> CsvSamples]
    /\ ar_index = 1
    /\ repositories_data = EmptyDict
    /\ repositories_summaries = EmptyDict
    /\ rq1_summary_json = MissingFile
    /\ rq2_summary_json = MissingFile
    /\ rq3_summary_json = MissingFile
    /\ consolidated_report_json = MissingFile

\* lines 556-569, one pass of the loop
LoadRepository ==
    /\ pcAR = "loading"
    /\ ar_index <= Len(repositories)
    /\ LET repo == repositories[ar_index]
           r == load_repository_results(ar_csv[repo])
       IN  IF r.raised
           THEN /\ pcAR' = "raised"
                /\ UNCHANGED <<ar_index, repositories_data, repositories_summaries>>
           ELSE /\ pcAR' = pcAR
                /\ ar_index' = ar_index + 1
                /\ IF r.df # None
                   THEN /\ repositories_data' = DictSet(repositories_data, repo, r.df)
                        /\ repositories_summaries' =
                              DictSet(repositories_summaries, repo,
                                      plot_individual_repository_metrics(repo, r.df))
                   ELSE UNCHANGED <<repositories_data, repositories_summaries>>
    /\ UNCHANGED <<ar_csv, rq1_summary_json, rq2_summary_json, rq3_summary_json,
                   consolidated_report_json, OtherThanAR>>

\* lines 571-575
ReturnWithoutData ==
    /\ pcAR = "loading"
    /\ ar_index > Len(repositories)
    /\ repositories_data = EmptyDict
    /\ pcAR' = "returned"
    /\ UNCHANGED <<ar_csv, ar_index, repositories_data, repositories_summaries,
                   rq1_summary_json, rq2_summary_json, rq3_summary_json,
                   consolidated_report_json, OtherThanAR>>

\* line 578: answer_rq1 writes rq1_summary.json
WriteRq1Summary ==
    /\ pcAR = "loading"
    /\ ar_index > Len(repositories)
    /\ repositories_data # EmptyDict
    /\ rq1_summary_json' = JsonFile([repo_stats |-> repo_stats_of(repositories_data)])
    /\ pcAR' = "rq2"
    /\ UNCHANGED <<ar_csv, ar_index, repositories_data, repositories_summaries,
                   rq2_summary_json, rq3_summary_json, consolidated_report_json, OtherThanAR>>

\* line 579: answer_rq2 writes rq2_summary.json
WriteRq2Summary ==
    /\ pcAR = "rq2"
    /\ rq2_summary_json' = JsonFile([repo_stats |-> repo_stats_of(repositories_data)])
    /\ pcAR' = "rq3"
    /\ UNCHANGED <<ar_csv, ar_index, repositories_data, repositories_summaries,
                   rq1_summary_json, rq3_summary_json, consolidated_report_json, OtherThanAR>>

\* line 580: answer_rq3 writes rq3_summary.json unless no repository has a CWE
WriteRq3Summary ==
    /\ pcAR = "rq3"
    /\ rq3_summary_json' =
          IF \A r \in DOMAIN repositories_data :
                all_cwes_of(repositories_data[r].unique_cwes) = <<>>
          THEN rq3_summary_json
          ELSE JsonFile([repository_top_cwes |-> repository_top_cwes_of(repositories_data)])
    /\ pcAR' = "report"
    /\ UNCHANGED <<ar_csv, ar_index, repositories_data, repositories_summaries,
                   rq1_summary_json, rq2_summary_json, consolidated_report_json, OtherThanAR>>

\* lines 582-594
WriteConsolidatedReport ==
    /\ pcAR = "report"
    /\ consolidated_report_json' =
          JsonFile([repositories |-> repositories_summaries,
                    research_questions |->
                       [rq1 |-> rq1_summary_json.data,
                        rq2 |-> rq2_summary_json.data,
                        rq3 |-> [repository_top_cwes |->
                                    repository_top_cwes_of(repositories_data)]]])
    /\ pcAR' = "complete"
    /\ UNCHANGED <<ar_csv, ar_index, repositories_data, repositories_summaries,
                   rq1_summary_json, rq2_summary_json, rq3_summary_json, OtherThanAR>>

NextAR ==
    \/ LoadRepository \/ ReturnWithoutData \/ WriteRq1Summary \/ WriteRq2Summary
    \/ WriteRq3Summary \/ WriteConsolidatedReport

SpecAnalyzeResults == InitAR /\ [][NextAR]_vars

\* the repositories the loop has gone through
Visited == {repositories[i] : i \in 1..(ar_index - 1)}

\* results.csv of the repository is there and has a data row
HasData(r) == ar_csv[r].exists /\ Len(ar_csv[r].rows) > 0

\* C15: the repositories loaded are those visited whose results.csv exists
\* and has a data row; when none was loaded main returns with no RQ summary
\* and no consolidated_report.json written; when the summaries and the
\* report are written, the repo_stats of RQ1 and RQ2 and the repositories
\* section have an entry for exactly the loaded repositories.
C15_ExactlyLoadedRepositories ==
    /\ DOMAIN repositories_data = {r \in Visited : HasData(r)}
    /\ DOMAIN repositories_summaries = DOMAIN repositories_data
    /\ pcAR \in {"returned", "raised", "loading"} =>
          /\ rq1_summary_json = MissingFile
          /\ rq2_summary_json = MissingFile
          /\ rq3_summary_json = MissingFile
          /\ consolidated_report_json = MissingFile
    /\ pcAR = "returned" => \A r \in RepoNames : ~HasData(r)
    /\ rq1_summary_json.exists =>
          DOMAIN rq1_summary_json.data.repo_stats = {r \in RepoNames : HasData(r)}
    /\ rq2_summary_json.exists =>
          DOMAIN rq2_summary_json.data.repo_stats = {r \in RepoNames : HasData(r)}
    /\ pcAR = "complete" =>
          /\ rq1_summary_json.exists /\ rq2_summary_json.exists
          /\ consolidated_report_json.exists
          /\ {r \in RepoNames : HasData(r)} # {}
          /\ DOMAIN consolidated_report_json.data.repositories =
                {r \in RepoNames : HasData(r)}
          /\ DOMAIN consolidated_report_json.data.research_questions.rq1.repo_stats =
                {r \in RepoNames : HasData(r)}
          /\ DOMAIN consolidated_report_json.data.research_questions.rq2.repo_stats =
                {r \in RepoNames : HasData(r)}

\* bandit has no results.csv, manim's has only the header, flask is loaded
C15_Witness ==
    /\ pcAR = "complete"
    /\ ~ar_csv["bandit"].exists
    /\ ar_csv["manim"].exists /\ ar_csv["manim"].rows = <<>>
    /\ DOMAIN consolidated_report_json.data.repositories = {"flask"}
    /\ consolidated_report_json.data.repositories["flask"].total_commits = 2

\* no repository could be loaded
C15_WitnessNone ==
    /\ pcAR = "returned"
    /\ ar_csv["bandit"].exists /\ ~ar_csv["flask"].exists
    /\ consolidated_report_json = MissingFile

(***************************************************************************)
(* lab5_final/updated-test-generation.py: main, load_low_coverage_files,   *)
(* generate_tests_for_file and the pynguin child process.  A path is the   *)
(* sequence of its pieces; "/" and ".py" are pieces of their own.          *)
(***************************************************************************)
LowCoveragePaths ==
    { <<"algorithms", "/", "sort", "/", "x", ".py">>,
      <<"algorithms", "/", "y", ".py">>,
      <<"algorithms", "/", "tests", "/", "test_x", ".py">>,
      <<"algorithms", "/", "__init__", ".py">> }

\* the lists of distinct paths of length at most n: the keys of
\* low_coverage_files.json in the order of the file
KeyLists(n) ==
    {l \in UNION {[1..m -> LowCoveragePaths] : m \in 0..n} :
        \A i, j \in 1..Len(l) : l[i] = l[j] => i = j}

\* every piece `from` replaced by `to`
replace_piece(path, from, to) ==
    [i \in 1..Len(path) |-> IF path[i] = from THEN to ELSE path[i]]

\* file_path_to_module_name, lines 20-25
file_path_to_module_name(file_path) ==
    LET module_path == replace_piece(file_path, "/", ".")
    IN  IF Len(module_path) > 0 /\ module_path[Len(module_path)] = ".py"
        THEN SubSeq(module_path, 1, Len(module_path) - 1)
        ELSE module_path

\* line 29
output_dir_name(file_path) == replace_piece(file_path_to_module_name(file_path), ".", "_")

\* the test of line 147
skip_low_coverage_file(file_path) ==
    \/ path_contains_tests(file_path)
    \/ /\ Len(file_path) >= 2
       /\ file_path[Len(file_path) - 1] = "__init__"
       /\ file_path[Len(file_path)] = ".py"

\* a directory pynguin_tests/<name>: absent, or present with or without
\* test_*.py files and __init__.py
NoDir == [exists |-> FALSE, tests |-> FALSE, init |-> FALSE]

EmptyDir == [exists |-> TRUE, tests |-> FALSE, init |-> FALSE]

\* left by an earlier run of the script
StaleDir == [exists |-> TRUE, tests |-> TRUE, init |-> TRUE]

OutputDirNames == {output_dir_name(p) : p \in LowCoveragePaths}

load_low_coverage_files_EmptyOnMissing(file) ==
    IF ~file.exists THEN [exit |-> -1, data |-> <<>>]
    ELSE IF ~file.valid THEN [exit |-> 1, data |-> <<>>]
    ELSE [exit |-> -1, data |-> file.data]

\* load_low_coverage_files: sys.exit(1) when the file is missing; the
\* JSONDecodeError of a file that is not JSON is not caught and ends the
\* interpreter with status 1 as well; exit = -1 when the function returns
load_low_coverage_files(file) ==
    IF ~file.exists THEN [exit |-> 1, data |-> <<>>]
    ELSE IF ~file.valid THEN [exit |-> 1, data |-> <<>>]
    ELSE [exit |-> -1, data |-> file.data]

still_running_Never(c) == FALSE

\* process.poll() is None
still_running(c) == c = "running"

test_files_found_AnyDir(dir) == dir.exists

\* list(Path(output_dir).glob("test_*.py")) is not empty
test_files_found(dir) == dir.exists /\ dir.tests

InitTG ==
    /\ IdleM6 /\ IdleM5 /\ IdleLC /\ IdleLab6 /\ IdleBP /\ IdleBM /\ IdleRQ /\ IdleCsv /\ IdleAC /\ IdleCov /\ IdleAR /\ IdleGit /\ IdleGL /\ IdleRP /\ IdleVC /\ IdlePC /\ IdleCF /\ IdleTS
    /\ pcTG = "main"
    /\ low_coverage_files_json \in
          {MissingFile, InvalidJsonFile} \cup {JsonFile(l) : l \in KeyLists(MaxLowFiles)}
    /\ tg_env \in [pynguin_installed : BOOLEAN, timeout : 1..MaxTimeout]
    /\ tg_index = 1
    /\ pynguin_successes = 0
    /\ tg_stdout = <<>>
    /\ pynguin_invocations = <<>>
    /\ exit_status = -1
    /\ elapsed = 0
    /\ child = "none"
    /\ signals = <<>>
    /\ polls = <<>>
    /\ gen_returns = <<>>
    /\ pynguin_tests \in
          {d \in [OutputDirNames -> {NoDir, StaleDir}] :
              \A p \in LowCoveragePaths :
                  skip_low_coverage_file(p) => d[output_dir_name(p)] = NoDir}
    /\ master_written = FALSE

\* the keys of the loaded dict, list(low_coverage_files.keys())
tg_keys == low_coverage_files_json.data

\* line 137
total_files == Len(tg_keys)

file_path == tg_keys[tg_index]

output_dir == output_dir_name(file_path)

\* lines 115-131
LoadLowCoverageFiles ==
    /\ pcTG = "main"
    /\ LET r == load_low_coverage_files(low_coverage_files_json)
       IN  IF r.exit # -1
           THEN /\ exit_status' = r.exit
                /\ pcTG' = "exited"
                /\ tg_stdout' = IF ~low_coverage_files_json.exists
                                THEN Append(tg_stdout, [line |-> "Error: low_coverage_files.json not found", file |-> <<>>])
                                ELSE tg_stdout
           ELSE /\ exit_status' = exit_status
                /\ pcTG' = "loop"
                /\ tg_stdout' = tg_stdout
    /\ UNCHANGED <<low_coverage_files_json, tg_env, tg_index, pynguin_successes,
                   pynguin_invocations, elapsed, child, signals, polls, gen_returns,
                   pynguin_tests, master_written, OtherThanTG>>

\* lines 145-148
SkipFile ==
    /\ pcTG = "loop"
    /\ tg_index <= Len(tg_keys)
    /\ skip_low_coverage_file(file_path)
    /\ tg_index' = tg_index + 1
    /\ UNCHANGED <<pcTG, low_coverage_files_json, tg_env, pynguin_successes, tg_stdout,
                   pynguin_invocations, exit_status, elapsed, child, signals, polls,
                   gen_returns, pynguin_tests, master_written, OtherThanTG>>

\* lines 150-153 and 28-65: the directory is made and pynguin started.  When
\* there is no pynguin executable Popen raises FileNotFoundError, line 107
\* catches it, the directory is removed and False returned.
StartGenerate ==
    /\ pcTG = "loop"
    /\ tg_index <= Len(tg_keys)
    /\ ~skip_low_coverage_file(file_path)
    /\ tg_stdout' = Append(tg_stdout, [line |-> "Processing file", file |-> file_path])
    /\ signals' = <<>>
    /\ polls' = <<>>
    /\ elapsed' = 0
    /\ IF tg_env.pynguin_installed
       THEN /\ pynguin_tests' = [pynguin_tests EXCEPT ![output_dir] =
                                    IF @.exists THEN @ ELSE EmptyDir]
            /\ pynguin_invocations' = Append(pynguin_invocations, file_path_to_module_name(file_path))
            /\ child' = "running"
            /\ pcTG' = "poll"
            /\ UNCHANGED <<tg_index, gen_returns>>
       ELSE /\ pynguin_tests' = [pynguin_tests EXCEPT ![output_dir] = NoDir]
            /\ child' = "none"
            /\ gen_returns' = Append(gen_returns,
                  [file |-> file_path, value |-> FALSE, child_ran |-> FALSE,
                   tests_seen |-> pynguin_tests[output_dir].tests])
            /\ tg_index' = tg_index + 1
            /\ pcTG' = "loop"
            /\ UNCHANGED pynguin_invocations
    /\ UNCHANGED <<low_coverage_files_json, tg_env, pynguin_successes, exit_status,
                   master_written, OtherThanTG>>

\* lines 66-72, one pass of the loop: the child is polled; if it has not
\* ended the function sleeps a second, after which at least a second more
\* has elapsed (values from `timeout` on are kept as `timeout`)
Poll ==
    /\ pcTG = "poll"
    /\ elapsed < tg_env.timeout
    /\ polls' = Append(polls, elapsed)
    /\ IF ~still_running(child)
       THEN pcTG' = "glob" /\ elapsed' = elapsed
       ELSE pcTG' = pcTG /\ elapsed' \in (elapsed + 1)..tg_env.timeout
    /\ UNCHANGED <<low_coverage_files_json, tg_env, tg_index, pynguin_successes, tg_stdout,
                   pynguin_invocations, exit_status, child, signals, gen_returns,
                   pynguin_tests, master_written, OtherThanTG>>

\* lines 75-78: the loop ended without break
LoopTimedOut ==
    /\ pcTG = "poll"
    /\ ~(elapsed < tg_env.timeout)
    /\ IF still_running(child)
       THEN /\ signals' = Append(signals, [sig |-> "terminate", child_was |-> child])
            /\ pcTG' = "wait"
       ELSE /\ signals' = signals
            /\ pcTG' = "glob"
    /\ UNCHANGED <<low_coverage_files_json, tg_env, tg_index, pynguin_successes, tg_stdout,
                   pynguin_invocations, exit_status, elapsed, child, polls, gen_returns,
                   pynguin_tests, master_written, OtherThanTG>>

\* lines 79-85: process.wait(5) returns because the child ended, or raises
\* TimeoutExpired, upon which the child is killed and waited for
WaitAfterTerminate ==
    /\ pcTG = "wait"
    /\ \/ /\ child' = "exited"
          /\ signals' = signals
       \/ /\ child = "running"
          /\ signals' = Append(signals, [sig |-> "kill", child_was |-> child])
          /\ child' = "exited"
    /\ pcTG' = "glob"
    /\ UNCHANGED <<low_coverage_files_json, tg_env, tg_index, pynguin_successes, tg_stdout,
                   pynguin_invocations, exit_status, elapsed, polls, gen_returns,
                   pynguin_tests, master_written, OtherThanTG>>

\* lines 88-99 and 153-154: the function returns
GlobAndReturn ==
    /\ pcTG = "glob"
    /\ LET found == test_files_found(pynguin_tests[output_dir])
       IN  /\ pynguin_tests' = [pynguin_tests EXCEPT ![output_dir] =
                                   IF found THEN [@ EXCEPT !.init = TRUE] ELSE NoDir]
           /\ gen_returns' = Append(gen_returns,
                 [file |-> file_path, value |-> found, child_ran |-> TRUE,
                  tests_seen |-> pynguin_tests[output_dir].tests])
           /\ pynguin_successes' = IF found THEN pynguin_successes + 1 ELSE pynguin_successes
           /\ tg_stdout' = IF found
                            THEN Append(tg_stdout, [line |-> "Successfully generated tests for",
                                                    file |-> file_path_to_module_name(file_path)])
                            ELSE tg_stdout
    /\ tg_index' = tg_index + 1
    /\ pcTG' = "loop"
    /\ UNCHANGED <<low_coverage_files_json, tg_env, pynguin_invocations,
                   exit_status, elapsed, child, signals, polls, master_written, OtherThanTG>>

\* lines 156-173, with the summary line
FinishMain ==
    /\ pcTG = "loop"
    /\ tg_index > Len(tg_keys)
    /\ master_written' = (pynguin_successes > 0)
    /\ tg_stdout' = Append(tg_stdout,
          [line |-> "Test generation complete", file |-> <<>>,
           successes |-> DigitsOf(pynguin_successes), total |-> DigitsOf(total_files)])
    /\ exit_status' = 0
    /\ pcTG' = "exited"
    /\ UNCHANGED <<low_coverage_files_json, tg_env, tg_index, pynguin_successes,
                   pynguin_invocations, elapsed, child, signals, polls, gen_returns,
                   pynguin_tests, OtherThanTG>>

\* the pynguin process ends by itself
ChildExits ==
    /\ child = "running"
    /\ child' = "exited"
    /\ UNCHANGED <<pcTG, low_coverage_files_json, tg_env, tg_index, pynguin_successes,
                   tg_stdout, pynguin_invocations, exit_status, elapsed, signals, polls,
                   gen_returns, pynguin_tests, master_written, OtherThanTG>>

\* the pynguin process writes a test_*.py file into its output directory
ChildWritesTests ==
    /\ child = "running"
    /\ ~pynguin_tests[output_dir].tests
    /\ pynguin_tests' = [pynguin_tests EXCEPT ![output_dir].tests = TRUE]
    /\ UNCHANGED <<pcTG, low_coverage_files_json, tg_env, tg_index, pynguin_successes,
                   tg_stdout, pynguin_invocations, exit_status, elapsed, child, signals,
                   polls, gen_returns, master_written, OtherThanTG>>

\* the steps of the script
ScriptTG ==
    \/ LoadLowCoverageFiles \/ SkipFile \/ StartGenerate \/ Poll \/ LoopTimedOut
    \/ WaitAfterTerminate \/ GlobAndReturn \/ FinishMain

NextTG == ScriptTG \/ ChildExits \/ ChildWritesTests

\* the interpreter keeps running the script; nothing is assumed of the child
SpecTestGeneration == InitTG /\ [][NextTG]_vars /\ WF_vars(ScriptTG)

ProcessingLines == {i \in 1..Len(tg_stdout) : tg_stdout[i].line = "Processing file"}

\* C16: when low_coverage_files.json does not exist the script ends, with exit
\* status 1, with pynguin never started and no "Processing file" line printed
C16_MissingFileExits ==
    /\ [](~low_coverage_files_json.exists /\ pcTG # "main"
            => /\ pcTG = "exited"
               /\ exit_status = 1
               /\ pynguin_invocations = <<>>
               /\ ProcessingLines = {}
               /\ gen_returns = <<>>)
    /\ (~low_coverage_files_json.exists /\ pcTG = "main") ~> (pcTG = "exited")

\* C16: the script has ended on a missing low_coverage_files.json
C16_Witness ==
    /\ ~low_coverage_files_json.exists
    /\ pcTG = "exited"
    /\ exit_status = 1
    /\ Len(tg_stdout) = 1

\* between the start of pynguin and the return of generate_tests_for_file
InCall == pcTG \in {"poll", "wait", "glob"}

\* C17: generate_tests_for_file returns in every execution; the loop polls the
\* child only while less than `timeout` seconds have elapsed; terminate is
\* sent only to a child still running when the loop has run out of time, kill
\* only after terminate; and the child is not running when the function returns
C17_AlwaysReturnsChildEnded ==
    /\ [](/\ \A i \in 1..Len(polls) : polls[i] < tg_env.timeout
          /\ signals \in {<<>>,
                          <<[sig |-> "terminate", child_was |-> "running"]>>,
                          <<[sig |-> "terminate", child_was |-> "running"],
                            [sig |-> "kill", child_was |-> "running"]>>}
          /\ signals # <<>> => elapsed >= tg_env.timeout
          /\ pcTG \in {"glob", "loop", "exited"} => child # "running")
    /\ InCall ~> (pcTG = "loop")

\* C17: a call has returned after the child was terminated and then killed
C17_Witness ==
    /\ pcTG = "loop"
    /\ Len(gen_returns) > 0
    /\ Len(signals) = 2
    /\ child = "exited"

\* C17: a call has returned after the child ended by itself within the time
C17_WitnessInTime ==
    /\ pcTG = "loop"
    /\ Len(gen_returns) > 0
    /\ gen_returns[Len(gen_returns)].child_ran
    /\ signals = <<>>
    /\ elapsed < tg_env.timeout

\* C18: a call in which the child ran returns True iff the output directory
\* held a test_*.py file once the child had ended; after True the directory
\* has an __init__.py, after False the directory is gone
C18_TrueIffTestFiles ==
    \A i \in 1..Len(gen_returns) :
        LET r == gen_returns[i]
            dir == pynguin_tests[output_dir_name(r.file)]
        IN  /\ r.child_ran => (r.value <=> r.tests_seen)
            /\ r.value => dir.exists /\ dir.tests /\ dir.init
            /\ ~r.value => dir = NoDir

\* C18: one call returned True after the child was terminated, another False
C18_Witness ==
    \E i, j \in 1..Len(gen_returns) :
        /\ gen_returns[i].value /\ gen_returns[i].child_ran
        /\ ~gen_returns[j].value /\ gen_returns[j].child_ran
        /\ Len(signals) > 0

(***************************************************************************)
(* lab78_final/run_bandit_analysis.py: get_last_100_non_merge_commits.     *)
(* Texts are sequences of characters.                                      *)
(***************************************************************************)
\* commits[:100]
CommitLimit == 100

\* author names (%an) and subjects (%s) of commits
AuthorSamples ==
    { <<"A", "n", "n">>,
      <<"D", "o", "e", ",", " ", "J">>,
      <<"D", "o", "e", ",", " ", "7">> }

SubjectSamples == { <<"f", "i", "x">>, <<"a", ",", "b">>, <<>> }

\* the i-th commit listed (1 the newest)
PlainCommit(i) ==
    [H |-> <<"c">> \o DigitsOf(i), an |-> <<"A", "n", "n">>, at |-> 1000 - i,
     s |-> <<"f", "i", "x">>]

\* the commits git log lists: n commits, the p-th with the given author
\* name and subject
ListedCommits(n, p, an, subject) ==
    [i \in 1..n |-> IF i = p THEN [PlainCommit(i) EXCEPT !.an = an, !.s = subject]
                    ELSE PlainCommit(i)]

\* --pretty=format:%H,%an,%at,%s
pretty_format(c) == c.H \o <<",">> \o c.an \o <<",">> \o DigitsOf(c.at) \o <<",">> \o c.s

\* text.split(sep, maxsplit)
RECURSIVE split_max(_, _, _)
split_max(text, sep, maxsplit) ==
    IF maxsplit = 0 \/ ~HasChar(text, sep) THEN <<text>>
    ELSE LET i == CHOOSE k \in 1..Len(text) :
                      text[k] = sep /\ \A j \in 1..(k - 1) : text[j] # sep
         IN  <<SubSeq(text, 1, i - 1)>>
             \o split_max(SubSeq(text, i + 1, Len(text)), sep, maxsplit - 1)

\* text.strip() of the blanks at both ends
RECURSIVE strip_blanks(_)
strip_blanks(text) ==
    IF text = <<>> THEN <<>>
    ELSE IF text[1] = " " THEN strip_blanks(Tail(text))
    ELSE IF text[Len(text)] = " " THEN strip_blanks(SubSeq(text, 1, Len(text) - 1))
    ELSE text

\* int(text): blanks around the digits are accepted, any other text raises
\* ValueError
py_int(text) ==
    IF is_numeric(strip_blanks(text))
    THEN [raised |-> FALSE, value |-> to_number(strip_blanks(text))]
    ELSE [raised |-> TRUE, value |-> 0]

\* result.stdout.strip().split('\n') of the listed lines: no text gives one
\* empty line
stdout_lines(stdout) == IF stdout = <<>> THEN << <<>> >> ELSE stdout

\* datetime.fromtimestamp(t).strftime(...)
date_of(t) == <<"date", t>>

parse_log_line_SplitAll(line) ==
    LET parts == split(line, ",")
    IN  IF Len(parts) # 4 THEN [raised |-> FALSE, commits |-> <<>>]
        ELSE LET timestamp == py_int(parts[3])
             IN  IF timestamp.raised THEN [raised |-> TRUE, commits |-> <<>>]
                 ELSE [raised |-> FALSE,
                       commits |-> <<[hash |-> parts[1], author |-> parts[2],
                                      timestamp |-> timestamp.value,
                                      date |-> date_of(timestamp.value),
                                      message |-> parts[4]]>>]

\* lines 19-30, one pass of the loop: the entries appended (none or one), or
\* the ValueError of int()
parse_log_line(line) ==
    IF line = <<>> THEN [raised |-> FALSE, commits |-> <<>>]
    ELSE LET parts == split_max(line, ",", 3)
         IN  IF Len(parts) # 4 THEN [raised |-> FALSE, commits |-> <<>>]
             ELSE LET timestamp == py_int(parts[3])
                  IN  IF timestamp.raised THEN [raised |-> TRUE, commits |-> <<>>]
                      ELSE [raised |-> FALSE,
                            commits |-> <<[hash |-> parts[1], author |-> parts[2],
                                           timestamp |-> timestamp.value,
                                           date |-> date_of(timestamp.value),
                                           message |-> parts[4]]>>]

\* lines 18-30: the loop over the lines; the first ValueError ends it
parse_log_lines(lines) ==
    LET passes == [i \in 1..Len(lines) |-> parse_log_line(lines[i])]
        appended == SelectSeq(passes, LAMBDA r : r.commits # <<>>)
    IN  IF \E i \in 1..Len(lines) : passes[i].raised
        THEN [raised |-> TRUE, commits |-> <<>>]
        ELSE [raised |-> FALSE,
              commits |-> [i \in 1..Len(appended) |-> appended[i].commits[1]]]

\* lines 9-33
get_last_100_non_merge_commits(stdout) ==
    LET parsed == parse_log_lines(stdout_lines(stdout))
    IN  IF parsed.raised THEN parsed
        ELSE [raised |-> FALSE,
              commits |-> SubSeq(parsed.commits, 1,
                                 IF Len(parsed.commits) < CommitLimit
                                 THEN Len(parsed.commits) ELSE CommitLimit)]

LogLengths == (0..MaxShortLog) \cup ((CommitLimit - 1)..(CommitLimit + MaxOverLimit))

InitGL ==
    /\ IdleM6 /\ IdleM5 /\ IdleLC /\ IdleLab6 /\ IdleBP /\ IdleBM /\ IdleRQ /\ IdleCsv /\ IdleAC /\ IdleCov /\ IdleAR /\ IdleTG /\ IdleGit /\ IdleRP /\ IdleVC /\ IdlePC /\ IdleCF /\ IdleTS
    /\ pcGL = "call"
    /\ \E n \in LogLengths : \E p \in ({1, n, CommitLimit} \cap (1..n)) \cup {0} :
       \E an \in AuthorSamples : \E subject \in SubjectSamples :
          log_commits = ListedCommits(n, p, an, subject)
    /\ git_log_stdout = [i \in 1..Len(log_commits) |-> pretty_format(log_commits[i])]
    /\ gl_return = [raised |-> FALSE, commits |-> <<>>]

\* the call: git log is run and its output parsed
GetLast100NonMergeCommits ==
    /\ pcGL = "call"
    /\ gl_return' = get_last_100_non_merge_commits(git_log_stdout)
    /\ pcGL' = IF gl_return'.raised THEN "raised" ELSE "returned"
    /\ UNCHANGED <<log_commits, git_log_stdout, OtherThanGL>>

NextGL == GetLast100NonMergeCommits

SpecGitLog == InitGL /\ [][NextGL]_vars

\* the number of entries to return for the listed commits
Expected == IF Len(log_commits) < CommitLimit THEN Len(log_commits) ELSE CommitLimit

\* the entries returned are the first commits listed, field by field
FirstListed ==
    /\ Len(gl_return.commits) = Expected
    /\ \A i \in 1..Len(gl_return.commits) :
          /\ gl_return.commits[i].hash = log_commits[i].H
          /\ gl_return.commits[i].author = log_commits[i].an
          /\ gl_return.commits[i].timestamp = log_commits[i].at
          /\ gl_return.commits[i].message = log_commits[i].s

CommaInAuthor == \E i \in 1..Len(log_commits) : HasChar(log_commits[i].an, ",")

\* C22 (as stated): the function returns the first 100 commits listed, all
\* of them when fewer are listed, in the listed order, each entry with the
\* hash, author, timestamp and message of its log line
C22_First100InOrder ==
    pcGL # "call" => pcGL = "returned" /\ FirstListed

\* C22 (what the code ensures): the same when no author name holds a comma;
\* with one, int() raises or the entry of that line has a wrong author,
\* timestamp and message; never more than 100 entries, never in another
\* order, and a subject with commas is kept whole
C22_First100UnlessCommaInAuthor ==
    /\ (pcGL # "call" /\ ~CommaInAuthor) => pcGL = "returned" /\ FirstListed
    /\ pcGL = "raised" => CommaInAuthor
    /\ pcGL = "returned" =>
          /\ Len(gl_return.commits) = Expected
          /\ Len(gl_return.commits) <= CommitLimit
          /\ \A i \in 1..Len(gl_return.commits) :
                gl_return.commits[i].hash = log_commits[i].H

\* C22: 101 commits listed, 100 returned, the last with a comma in its
\* subject
C22_Witness ==
    /\ pcGL = "returned"
    /\ Len(log_commits) = CommitLimit + 1
    /\ Len(gl_return.commits) = CommitLimit
    /\ gl_return.commits[CommitLimit].message = <<"a", ",", "b">>
    /\ ~CommaInAuthor

\* C22: an author name with a comma followed by a number: the entry
\* returned for the line has the wrong author and timestamp
C22_WitnessWrongFields ==
    /\ pcGL = "returned"
    /\ CommaInAuthor
    /\ gl_return.commits[1].author = <<"D", "o", "e">>
    /\ gl_return.commits[1].timestamp = 7

\* C22: an author name with a comma: ValueError
C22_WitnessRaised ==
    /\ pcGL = "raised"
    /\ Len(log_commits) = 1

(***************************************************************************)
(* lab6_final/parallel-test-script.py: run_parallel_tests, one call        *)
(***************************************************************************)
InitRP ==
    /\ IdleM6 /\ IdleM5 /\ IdleLC /\ IdleLab6 /\ IdleBP /\ IdleBM /\ IdleRQ /\ IdleCsv /\ IdleAC /\ IdleCov /\ IdleAR /\ IdleTG /\ IdleGit /\ IdleGL /\ IdleVC /\ IdlePC /\ IdleCF /\ IdleTS
    /\ pcRP = "iterations"
    /\ rp_config \in {configurations[k] : k \in 1..Len(configurations)}
    /\ rp_executions = <<>>
    /\ rp_result = <<>>

\* lines 27-46, one pass of `for i in range(iterations)`: pytest is run to
\* its end, its time and its output are taken
RunIteration ==
    /\ pcRP = "iterations"
    /\ Len(rp_executions) < iterations
    /\ \E t \in 1..MaxLoad : \E out \in 1..Len(StdoutSamples) :
          rp_executions' = Append(rp_executions, [time |-> t, stdout |-> StdoutSamples[out]])
    /\ UNCHANGED <<pcRP, rp_config, rp_result, OtherThanRP>>

\* lines 48-72: Tpar, the flaky tests and the return
ReturnRunResult ==
    /\ pcRP = "iterations"
    /\ Len(rp_executions) = iterations
    /\ rp_result' = run_parallel_tests(rp_config, rp_executions)
    /\ pcRP' = "returned"
    /\ UNCHANGED <<rp_config, rp_executions, OtherThanRP>>

NextRP == RunIteration \/ ReturnRunResult

SpecRunParallel == InitRP /\ [][NextRP]_vars

\* the lines of the output of iteration i that hold " FAILED " or " ERROR "
FailingLines(i) ==
    LET lines == StripSplit(rp_executions[i].stdout)
    IN  {j \in 1..Len(lines) :
            \E q \in 2..(Len(lines[j]) - 1) : lines[j][q] \in {"FAILED", "ERROR"}}

\* the test named first on a failing line of iteration i
FailedIn(test, i) ==
    \E j \in FailingLines(i) : StripSplit(rp_executions[i].stdout)[j][1] = test

TestNames == {"tests/test_a.py::test_x", "tests/test_b.py::test_y",
              "tests/test_c.py::test_z[", "FAILED", ""}

\* C23: pytest has run exactly `iterations` times when the function returns;
\* times, failures and failing_tests have `iterations` entries, failures[i]
\* being the number of failing lines of iteration i; a test is in flaky_tests
\* iff it failed in some iteration but not in all
C23_IterationsAndFlaky ==
    /\ Len(rp_executions) <= iterations
    /\ pcRP = "returned" =>
          /\ Len(rp_executions) = iterations
          /\ Len(rp_result.times) = iterations
          /\ Len(rp_result.failures) = iterations
          /\ Len(rp_result.failing_tests) = iterations
          /\ \A i \in 1..iterations :
                /\ rp_result.times[i] = rp_executions[i].time
                /\ rp_result.failures[i] = Cardinality(FailingLines(i))
                /\ Len(rp_result.failing_tests[i]) = rp_result.failures[i]
          /\ rp_result.flaky_tests \subseteq TestNames
          /\ \A test \in TestNames :
                test \in rp_result.flaky_tests
                <=> /\ \E i \in 1..iterations : FailedIn(test, i)
                    /\ \E i \in 1..iterations : ~FailedIn(test, i)

\* C23: one test failed in every iteration and is not flaky, another failed
\* in one iteration only and is
C23_Witness ==
    /\ pcRP = "returned"
    /\ \A i \in 1..iterations : FailedIn("tests/test_a.py::test_x", i)
    /\ "tests/test_a.py::test_x" \notin rp_result.flaky_tests
    /\ "tests/test_c.py::test_z[" \in rp_result.flaky_tests
    /\ rp_result.failures[1] # rp_result.failures[2]

(***************************************************************************)
(* lab6_final/sequential-test-script.py: verify_clean_test_suite.  The     *)
(* file pytest.ini is the sequence of its lines; vc_stdout holds the       *)
(* outputs of the pytest runs of the call, in order, and ini_writes the    *)
(* contents pytest.ini has had, the one before the call first.             *)
(***************************************************************************)
IniFile(lines) == [exists |-> TRUE, lines |-> lines]

\* pytest.ini before the call: absent, or as create_pytest_ini wrote it
IniSamples ==
    { [exists |-> FALSE, lines |-> <<>>],
      IniFile(<<"[pytest]", "addopts = ">>),
      IniFile(<<"[pytest]", "addopts = -k \"not test_x\" -k \"not test_y\" ">>) }

\* lines 130-134
CollectOnlyIni == IniFile(<<"[pytest]", "addopts = --collect-only">>)

\* lines 140-142
ExcludeAllIni == IniFile(<<"[pytest]", "addopts = -k \"not test\"">>)

verify_failing_tests_FirstLineOnly(stdout) ==
    LET lines == StripSplit(stdout)
        hit == SelectSeq(<<lines[1]>>, LAMBDA line :
                   Contains(line, "FAILED") \/ Contains(line, "ERROR"))
    IN  [j \in 1..Len(hit) |-> hit[j][1]]

\* lines 113-119
verify_failing_tests(stdout) ==
    LET lines == StripSplit(stdout)
        hit == SelectSeq(lines, LAMBDA line :
                   Contains(line, "FAILED") \/ Contains(line, "ERROR"))
    IN  [j \in 1..Len(hit) |-> hit[j][1]]

InitVC ==
    /\ IdleM6 /\ IdleM5 /\ IdleLC /\ IdleLab6 /\ IdleBP /\ IdleBM /\ IdleRQ /\ IdleCsv /\ IdleAC /\ IdleCov /\ IdleAR /\ IdleTG /\ IdleGit /\ IdleGL /\ IdleRP /\ IdlePC /\ IdleCF /\ IdleTS
    /\ pcVC = "verify"
    /\ pytest_ini \in IniSamples
    /\ vc_stdout = <<>>
    /\ vc_failing_tests = <<>>
    /\ vc_return = "none"
    /\ ini_writes = <<pytest_ini>>

\* lines 110-119: pytest is run and the failing lines of its output taken
VerifyRun ==
    /\ pcVC = "verify"
    /\ \E out \in 1..Len(StdoutSamples) : vc_stdout' = Append(vc_stdout, StdoutSamples[out])
    /\ vc_failing_tests' = verify_failing_tests(vc_stdout'[1])
    /\ pcVC' = IF vc_failing_tests' # <<>> THEN "failing" ELSE "return"
    /\ UNCHANGED <<pytest_ini, vc_return, ini_writes, OtherThanVC>>

\* lines 121-134
WriteCollectOnlyIni ==
    /\ pcVC = "failing"
    /\ pytest_ini' = CollectOnlyIni
    /\ ini_writes' = Append(ini_writes, pytest_ini')
    /\ pcVC' = "collect"
    /\ UNCHANGED <<vc_stdout, vc_failing_tests, vc_return, OtherThanVC>>

\* line 137: pytest is run again, its output is not looked at
CollectRun ==
    /\ pcVC = "collect"
    /\ \E out \in 1..Len(StdoutSamples) : vc_stdout' = Append(vc_stdout, StdoutSamples[out])
    /\ pcVC' = "exclude"
    /\ UNCHANGED <<pytest_ini, vc_failing_tests, vc_return, ini_writes, OtherThanVC>>

\* lines 140-142
WriteExcludeAllIni ==
    /\ pcVC = "exclude"
    /\ pytest_ini' = ExcludeAllIni
    /\ ini_writes' = Append(ini_writes, pytest_ini')
    /\ pcVC' = "return"
    /\ UNCHANGED <<vc_stdout, vc_failing_tests, vc_return, OtherThanVC>>

\* lines 143-146
VerifyReturn ==
    /\ pcVC = "return"
    /\ vc_return' = (IF vc_failing_tests = <<>> THEN "True" ELSE "False")
    /\ pcVC' = "returned"
    /\ UNCHANGED <<pytest_ini, vc_stdout, vc_failing_tests, ini_writes, OtherThanVC>>

NextVC == VerifyRun \/ WriteCollectOnlyIni \/ CollectRun \/ WriteExcludeAllIni \/ VerifyReturn

SpecVerifyClean == InitVC /\ [][NextVC]_vars

\* a line of the (stripped) output of the first pytest run holds " FAILED "
\* or " ERROR "
SomeFailingLine ==
    LET lines == StripSplit(vc_stdout[1])
    IN  \E j \in 1..Len(lines) : \E q \in 2..(Len(lines[j]) - 1) :
           lines[j][q] \in {"FAILED", "ERROR"}

\* C24: verify_clean_test_suite returns True iff the pytest output has no
\* line with " FAILED " or " ERROR "; with True pytest.ini was never written
\* and is as before the call; with False it was written twice, first with
\* --collect-only and last with -k "not test", which it holds at the return
C24_ReturnAndPytestIni ==
    /\ [](pcVC = "returned" =>
          /\ vc_return = "True" <=> ~SomeFailingLine
          /\ vc_return = "False" <=> SomeFailingLine
          /\ vc_return = "True" =>
                /\ ini_writes = <<pytest_ini>>
                /\ pytest_ini \in IniSamples
                /\ Len(vc_stdout) = 1
          /\ vc_return = "False" =>
                /\ Tail(ini_writes) = <<CollectOnlyIni, ExcludeAllIni>>
                /\ pytest_ini = ExcludeAllIni
                /\ pytest_ini.lines = <<"[pytest]", "addopts = -k \"not test\"">>
                /\ Len(vc_stdout) = 2)
    /\ [](pytest_ini = CollectOnlyIni => pcVC \in {"collect", "exclude"})
    /\ [][pytest_ini' # pytest_ini =>
             pytest_ini' \in {CollectOnlyIni, ExcludeAllIni} /\ vc_failing_tests # <<>>]_vars

\* C24: False was returned; the first output's only failing line is an ERROR
\* line
C24_Witness ==
    /\ pcVC = "returned"
    /\ vc_return = "False"
    /\ Len(vc_failing_tests) = 1
    /\ vc_failing_tests[1] = "tests/test_b.py::test_y"
    /\ pytest_ini = ExcludeAllIni

\* C24: True was returned and pytest.ini is the one create_pytest_ini wrote
C24_WitnessClean ==
    /\ pcVC = "returned"
    /\ vc_return = "True"
    /\ pytest_ini.exists
    /\ Len(pytest_ini.lines) = 2
    /\ pytest_ini # ExcludeAllIni

(***************************************************************************)
(* lab5_final/improved-coverage.py: plot_coverage and lines 271-292 of     *)
(* run_tests_and_record_coverage.  A dict is the sequence of its items in  *)
(* insertion order; line_coverage is a quotient <<covered, total>>.        *)
(***************************************************************************)
\* sorted(...)[:10]
PlotLimit == 10

SuiteNames == {"a", "A", "b", "B"}

\* str.lower() on the suite names
lower(name) == IF name = "A" THEN "a" ELSE IF name = "B" THEN "b" ELSE name

\* the i-th file of file_coverage: fully covered, or covered to 0 or to 1/2
CoverageItem(i, full) ==
    [file |-> <<"algorithms", "/", "f" \o Str(i), ".py">>,
     info |-> [line_coverage |-> IF full THEN <<1, 1>>
                                 ELSE IF i % 2 = 0 THEN <<0, 1>> ELSE <<1, 2>>]]

FileCoverageSamples ==
    {[i \in 1..n |-> CoverageItem(i, i \in F)] :
        <<n, F>> \in {nF \in ((0..MaxFewFiles) \cup (PlotLimit..(PlotLimit + MaxOverPlot)))
                              \X SUBSET (1..(PlotLimit + MaxOverPlot)) :
                        /\ nF[2] \subseteq 1..nF[1]
                        /\ Cardinality(nF[2]) <= 1 \/ nF[2] = 1..nF[1]}}

\* a < b for quotients
less_than(a, b) == a[1] * b[2] < b[1] * a[2]

not_fully_covered_AtMostOne(items) ==
    SelectSeq(items, LAMBDA it : ~less_than(<<1, 1>>, it.info.line_coverage))

\* lines 199-201: the items with line_coverage < 1.0
not_fully_covered(items) ==
    SelectSeq(items, LAMBDA it : less_than(it.info.line_coverage, <<1, 1>>))

\* sorted(items, key=line_coverage): stable, by insertion
RECURSIVE insert_sorted(_, _)
insert_sorted(sorted, it) ==
    IF sorted = <<>> THEN <<it>>
    ELSE IF less_than(it.info.line_coverage, sorted[Len(sorted)].info.line_coverage)
    THEN insert_sorted(SubSeq(sorted, 1, Len(sorted) - 1), it) \o <<sorted[Len(sorted)]>>
    ELSE sorted \o <<it>>

RECURSIVE sorted_by_coverage(_)
sorted_by_coverage(items) ==
    IF items = <<>> THEN <<>>
    ELSE insert_sorted(sorted_by_coverage(SubSeq(items, 1, Len(items) - 1)), items[Len(items)])

\* line 204: the items plotted
lowest_ten(items) ==
    LET sorted == sorted_by_coverage(items)
    IN  SubSeq(sorted, 1, IF Len(sorted) < PlotLimit THEN Len(sorted) ELSE PlotLimit)

\* line 283
low_cov_dict(items) ==
    [i \in 1..Len(items) |->
        [key |-> items[i].file,
         value |-> [line_coverage |-> items[i].info.line_coverage]]]

\* an older low_coverage_files.json
StaleLowCoverageFile ==
    JsonFile(<<[key |-> <<"algorithms", "/", "old", ".py">>,
                value |-> [line_coverage |-> <<0, 1>>]]>>)

InitPC ==
    /\ IdleM6 /\ IdleM5 /\ IdleLC /\ IdleLab6 /\ IdleBP /\ IdleBM /\ IdleRQ /\ IdleCsv /\ IdleAC /\ IdleCov /\ IdleAR /\ IdleTG /\ IdleGit /\ IdleGL /\ IdleRP /\ IdleVC /\ IdleCF /\ IdleTS
    /\ pcPC = "plot"
    /\ suite_name \in SuiteNames
    /\ file_coverage \in FileCoverageSamples
    /\ not_fully_covered_files = <<>>
    /\ sorted_files = <<>>
    /\ low_coverage_files_out \in {MissingFile, StaleLowCoverageFile}
    /\ low_written = FALSE

\* line 275 with plot_coverage, lines 174-228
PlotCoverage ==
    /\ pcPC = "plot"
    /\ not_fully_covered_files' = not_fully_covered(file_coverage)
    /\ sorted_files' = lowest_ten(not_fully_covered_files')
    /\ pcPC' = "save"
    /\ UNCHANGED <<suite_name, file_coverage, low_coverage_files_out, low_written,
                   OtherThanPC>>

\* lines 277-292
SaveLowCoverageFiles ==
    /\ pcPC = "save"
    /\ IF lower(suite_name) = "a" /\ not_fully_covered_files # <<>>
       THEN /\ low_coverage_files_out' = JsonFile(low_cov_dict(not_fully_covered_files))
            /\ low_written' = TRUE
       ELSE UNCHANGED <<low_coverage_files_out, low_written>>
    /\ pcPC' = "returned"
    /\ UNCHANGED <<suite_name, file_coverage, not_fully_covered_files, sorted_files,
                   OtherThanPC>>

NextPC == PlotCoverage \/ SaveLowCoverageFiles

SpecPlotCoverage == InitPC /\ [][NextPC]_vars

\* the files of file_coverage with line_coverage below 1
BelowFull ==
    {file_coverage[i].file : i \in {k \in 1..Len(file_coverage) :
        file_coverage[k].info.line_coverage[1] < file_coverage[k].info.line_coverage[2]}}

KeysOf(file) == {file.data[i].key : i \in 1..Len(file.data)}

\* for suite 'a' the file is written iff some file is below full coverage,
\* and its keys are then exactly those files
WrittenForSuiteA ==
    (pcPC = "returned" /\ suite_name = "a") =>
        /\ low_written <=> BelowFull # {}
        /\ low_written =>
              /\ Loadable(low_coverage_files_out)
              /\ KeysOf(low_coverage_files_out) = BelowFull
              /\ Len(low_coverage_files_out.data) = Cardinality(BelowFull)
              /\ \A i \in 1..Len(low_coverage_files_out.data) :
                    \E k \in 1..Len(file_coverage) :
                       /\ file_coverage[k].file = low_coverage_files_out.data[i].key
                       /\ file_coverage[k].info.line_coverage
                             = low_coverage_files_out.data[i].value.line_coverage
        /\ ~low_written => low_coverage_files_out \in {MissingFile, StaleLowCoverageFile}

\* C25 (as stated): ... and for a suite name other than 'a' the file is
\* never written
C25_LowCoverageFilesWritten ==
    /\ WrittenForSuiteA
    /\ suite_name # "a" => ~low_written

\* C25 (what the code ensures): ... and for a suite name whose lower-case
\* form is not 'a' the file is never written; for 'A' it is written as for
\* 'a'
C25_LowCoverageFilesWrittenLower ==
    /\ WrittenForSuiteA
    /\ lower(suite_name) # "a" => ~low_written
    /\ (pcPC = "returned" /\ suite_name = "A") => (low_written <=> BelowFull # {})

\* C25: eleven files below full coverage, ten plotted, all eleven written
C25_Witness ==
    /\ pcPC = "returned"
    /\ suite_name = "a"
    /\ low_written
    /\ Len(sorted_files) = PlotLimit
    /\ Cardinality(KeysOf(low_coverage_files_out)) = PlotLimit + 1

\* C25: suite 'a', every file fully covered, the older file stays
C25_WitnessNotWritten ==
    /\ pcPC = "returned"
    /\ suite_name = "a"
    /\ Len(file_coverage) > 0
    /\ ~low_written
    /\ low_coverage_files_out = StaleLowCoverageFile

\* C25: suite 'A' writes the file
C25_WitnessUpperCase ==
    /\ pcPC = "returned"
    /\ suite_name = "A"
    /\ low_written

(***************************************************************************)
(* lab6_final/analysis-script.py: analyze_parallel_failures (the set of    *)
(* failing tests) and categorize_test_failures.  A test name is the        *)
(* sequence of its characters.                                             *)
(***************************************************************************)
FailingTestSamples ==
    <<<<"t", "e", "s", "t", "_", "S", "t", "a", "t", "e", "_", "w", "a", "i", "t">>,
      <<"t", "e", "s", "t", "_", "t", "i", "m", "e", "o", "u", "t", "_", "o", "r", "d", "e", "r">>,
      <<"t", "e", "s", "t", "_", "D", "e", "p", "e", "n", "d">>,
      <<"t", "e", "s", "t", "_", "b", "a", "s", "i", "c">>>>

\* line 64
SharedKeywords ==
    {<<"g", "l", "o", "b", "a", "l">>,
     <<"s", "t", "a", "t", "e">>,
     <<"r", "e", "s", "o", "u", "r", "c", "e">>}

\* line 66
TimingKeywords ==
    {<<"t", "i", "m", "e">>,
     <<"w", "a", "i", "t">>,
     <<"s", "l", "e", "e", "p">>}

\* line 69
OrderKeywords ==
    {<<"o", "r", "d", "e", "r">>,
     <<"s", "e", "q", "u", "e", "n", "c", "e">>,
     <<"d", "e", "p", "e", "n", "d">>}

\* str.lower() on one character of a test name
lower_char(c) == IF c = "S" THEN "s" ELSE IF c = "D" THEN "d" ELSE c

\* line 63
test_lower(test) == [i \in 1..Len(test) |-> lower_char(test[i])]

\* `keyword in text`
in_text(keyword, text) ==
    \E i \in 1..(Len(text) - Len(keyword) + 1) :
        SubSeq(text, i, i + Len(keyword) - 1) = keyword

any_in(keywords, text) == \E k \in keywords : in_text(k, text)

category_of_TimingFirst(test) ==
    IF any_in(TimingKeywords, test_lower(test)) THEN "timing_issues"
    ELSE IF any_in(SharedKeywords, test_lower(test)) THEN "shared_resources"
    ELSE IF any_in(OrderKeywords, test_lower(test)) THEN "order_dependencies"
    ELSE "other_issues"

\* lines 63-73: the list a test is appended to
category_of(test) ==
    IF any_in(SharedKeywords, test_lower(test)) THEN "shared_resources"
    ELSE IF any_in(TimingKeywords, test_lower(test)) THEN "timing_issues"
    ELSE IF any_in(OrderKeywords, test_lower(test)) THEN "order_dependencies"
    ELSE "other_issues"

Categories == {"shared_resources", "timing_issues", "order_dependencies", "other_issues"}

\* the failing tests of one run: at most two of the samples, in sample order
FailureListSamples ==
    {SelectSeq(FailingTestSamples, LAMBDA t : t \in S) :
        S \in {T \in SUBSET {FailingTestSamples[i] : i \in 1..Len(FailingTestSamples)} :
                  Cardinality(T) <= 2}}

\* lines 12-15: set() updated with every failure list
failing_test_set(lists) == {lists[i][j] : <<i, j>> \in
    {ij \in (1..Len(lists)) \X (1..Len(FailingTestSamples)) : ij[2] <= Len(lists[ij[1]])}}

\* line 46: list(set), in the set's iteration order
list_of_set(S) ==
    {l \in UNION {[1..n -> S] : n \in {Cardinality(S)}} :
        \A i, j \in 1..Len(l) : i # j => l[i] # l[j]}

InitCF ==
    /\ IdleM6 /\ IdleM5 /\ IdleLC /\ IdleLab6 /\ IdleBP /\ IdleBM /\ IdleRQ /\ IdleCsv /\ IdleAC /\ IdleCov /\ IdleAR /\ IdleTG /\ IdleGit /\ IdleGL /\ IdleRP /\ IdleVC /\ IdlePC /\ IdleTS
    /\ pcCF = "analyze"
    /\ cf_failure_lists \in UNION {[1..n -> FailureListSamples] : n \in 0..MaxFailureLists}
    /\ failure_analysis = [all_failing_tests |-> <<>>]
    /\ cf_index = 0
    /\ categorized_failures = [c \in Categories |-> <<>>]

\* lines 8-49, called at line 402
AnalyzeParallelFailures ==
    /\ pcCF = "analyze"
    /\ \E l \in list_of_set(failing_test_set(cf_failure_lists)) :
          failure_analysis' = [all_failing_tests |-> l]
    /\ cf_index' = 1
    /\ categorized_failures' = [c \in Categories |-> <<>>]
    /\ pcCF' = "categorize"
    /\ UNCHANGED <<cf_failure_lists, OtherThanCF>>

\* lines 62-73: one turn of the loop
CategorizeTest ==
    /\ pcCF = "categorize"
    /\ cf_index <= Len(failure_analysis.all_failing_tests)
    /\ LET test == failure_analysis.all_failing_tests[cf_index]
       IN  categorized_failures' =
              [categorized_failures EXCEPT ![category_of(test)] = Append(@, test)]
    /\ cf_index' = cf_index + 1
    /\ UNCHANGED <<pcCF, cf_failure_lists, failure_analysis, OtherThanCF>>

\* lines 75-84
ReturnCategories ==
    /\ pcCF = "categorize"
    /\ cf_index > Len(failure_analysis.all_failing_tests)
    /\ pcCF' = "returned"
    /\ UNCHANGED <<cf_failure_lists, failure_analysis, cf_index, categorized_failures,
                   OtherThanCF>>

NextCF == AnalyzeParallelFailures \/ CategorizeTest \/ ReturnCategories

SpecCategorize == InitCF /\ [][NextCF]_vars

InList(test, c) ==
    \E i \in 1..Len(categorized_failures[c]) : categorized_failures[c][i] = test

ListSizes ==
    Len(categorized_failures["shared_resources"]) + Len(categorized_failures["timing_issues"])
      + Len(categorized_failures["order_dependencies"]) + Len(categorized_failures["other_issues"])

Shared(test) == \E k \in SharedKeywords : in_text(k, test_lower(test))
Timing(test) == \E k \in TimingKeywords : in_text(k, test_lower(test))
Order(test) == \E k \in OrderKeywords : in_text(k, test_lower(test))

\* C26: the four lists are always pairwise disjoint and hold each test at
\* most once; on return every test of all_failing_tests is in exactly one
\* list, the sizes sum to the number of failing tests, and the list is
\* chosen by keyword with priority shared, timing, order, other
C26_ExactlyOneCategory ==
    /\ \A c, d \in Categories : \A i \in 1..Len(categorized_failures[c]) :
          \A j \in 1..Len(categorized_failures[d]) :
             (c # d \/ i # j) => categorized_failures[c][i] # categorized_failures[d][j]
    /\ pcCF = "returned" =>
          LET tests == failure_analysis.all_failing_tests
          IN  /\ ListSizes = Len(tests)
              /\ Len(tests) = Cardinality(failing_test_set(cf_failure_lists))
              /\ \A c \in Categories : \A i \in 1..Len(categorized_failures[c]) :
                    \E k \in 1..Len(tests) : tests[k] = categorized_failures[c][i]
              /\ \A k \in 1..Len(tests) :
                    /\ Cardinality({c \in Categories : InList(tests[k], c)}) = 1
                    /\ InList(tests[k], "shared_resources") <=> Shared(tests[k])
                    /\ InList(tests[k], "timing_issues")
                          <=> (~Shared(tests[k]) /\ Timing(tests[k]))
                    /\ InList(tests[k], "order_dependencies")
                          <=> (~Shared(tests[k]) /\ ~Timing(tests[k]) /\ Order(tests[k]))
                    /\ InList(tests[k], "other_issues")
                          <=> (~Shared(tests[k]) /\ ~Timing(tests[k]) /\ ~Order(tests[k]))

\* C26: three failing tests from two runs, one of them failed in both; the
\* one in shared_resources also has a timing keyword and the one in
\* timing_issues also has an order keyword
C26_Witness ==
    /\ pcCF = "returned"
    /\ Len(cf_failure_lists) = 2
    /\ Len(failure_analysis.all_failing_tests) = 3
    /\ Len(categorized_failures["shared_resources"]) = 1
    /\ Len(categorized_failures["timing_issues"]) = 1
    /\ Shared(categorized_failures["shared_resources"][1])
    /\ Timing(categorized_failures["shared_resources"][1])
    /\ Order(categorized_failures["timing_issues"][1])
    /\ \E t \in failing_test_set(cf_failure_lists) :
          \A i \in 1..Len(cf_failure_lists) : \E j \in 1..Len(cf_failure_lists[i]) :
             cf_failure_lists[i][j] = t

(***************************************************************************)
(* lab6_final: sequential_time.json from its writer to its two readers.    *)
(* sequential-test-script.py __main__ (steps 4 and 5 and the save),        *)
(* then parallel-test-script.py, then analysis-script.py main.             *)
(***************************************************************************)
OtherThanPipeline == <<vM6, vM5, vLC, vBP, vBM, vRQ, vCsv, vAC, vCov, vAR, vTG, vGit, vGL, vRP, vVC, vPC, vCF>>

\* durations of five pytest executions, in seconds; the sampled lists have
\* an integral mean
FiveExecutions ==
    {<<3, 3, 3, 3, 3>>, <<2, 3, 4, 3, 3>>, <<4, 5, 6, 4, 6>>, <<7, 7, 7, 7, 7>>}

\* three test suite runs of five repetitions, with an integral mean of
\* means
ThreeRuns ==
    {suite_runs \in [1..3 -> FiveExecutions] :
        average([i \in 1..3 |-> average(suite_runs[i])[1]])[2] = 1}

\* sum(times) / len(times) as a number of seconds, on lists whose mean is
\* integral
whole_average(times) == average(times)[1]

\* measure_sequential_time, lines 148-186
measure_sequential_time(suite_runs) ==
    LET outer_avg_times == [i \in 1..Len(suite_runs) |-> whole_average(suite_runs[i])]
    IN  [avg |-> whole_average(outer_avg_times),
         outer_avg_times |-> outer_avg_times,
         all_times |-> suite_runs[1] \o suite_runs[2] \o suite_runs[3]]

\* measure_simple_sequential_time, lines 189-214
measure_simple_sequential_time(times) == [avg |-> whole_average(times), times |-> times]

\* lines 242-263: the dict dumped to sequential_time.json
sequential_time_dict(nested, simple) ==
    [k \in {"avg_time", "avg_time_nested", "avg_time_simple", "tseq_nested", "tseq_simple"} |->
       CASE k = "avg_time" -> simple.avg
         [] k = "avg_time_nested" -> nested.avg
         [] k = "avg_time_simple" -> simple.avg
         [] k = "tseq_nested" ->
               [value |-> nested.avg,
                description |-> "Tseq (5 repetitions of 3 executions each)",
                outer_avg_times |-> nested.outer_avg_times,
                all_times |-> nested.all_times,
                test_suite_runs |-> 3, repetitions_per_run |-> 5]
         [] k = "tseq_simple" ->
               [value |-> simple.avg, description |-> "Tseq (5 executions)",
                times |-> simple.times, total_executions |-> 5]]

\* the file is found as it is (pcTS = "given") or sequential-test-script
\* writes it first
InitTS ==
    /\ IdleM6 /\ IdleM5 /\ IdleLC /\ IdleBP /\ IdleBM /\ IdleRQ /\ IdleCsv /\ IdleAC /\ IdleCov /\ IdleAR /\ IdleTG /\ IdleGit /\ IdleGL /\ IdleRP /\ IdleVC /\ IdlePC /\ IdleCF
    /\ IdleSeq
    /\ pcTS \in {"given", "measure_nested"}
    /\ ts_nested = [avg |-> 0, outer_avg_times |-> <<>>, all_times |-> <<>>]
    /\ ts_simple = [avg |-> 0, times |-> <<>>]
    /\ sequential_time_json \in
          IF pcTS = "given" THEN SeqTimeFiles
          ELSE {MissingFile, JsonFile(SeqTimeDict({"avg_time_nested"}, "absent", "value"))}
    /\ sequential_results_json \in SeqResultsFiles
    /\ parallel_results_json = MissingFile
    /\ pcPar = "load_tseq"
    /\ machine_load \in 1..MaxLoad
    /\ tseq = 0
    /\ config_index = 1
    /\ results = <<>>
    /\ pcAn = "main"
    /\ sequential_data = EmptyDict
    /\ an_parallel_results = <<>>
    /\ report = NoReport

\* step 4, lines 229-232
MeasureSequentialTime ==
    /\ pcTS = "measure_nested"
    /\ \E suite_runs \in ThreeRuns : ts_nested' = measure_sequential_time(suite_runs)
    /\ pcTS' = "measure_simple"
    /\ UNCHANGED <<ts_simple, vDisk, vAn, vPar, vSeq, OtherThanPipeline>>

\* step 5, lines 234-237
MeasureSimpleSequentialTime ==
    /\ pcTS = "measure_simple"
    /\ \E times \in FiveExecutions : ts_simple' = measure_simple_sequential_time(times)
    /\ pcTS' = "save"
    /\ UNCHANGED <<ts_nested, vDisk, vAn, vPar, vSeq, OtherThanPipeline>>

\* lines 239-263
SaveSequentialTime ==
    /\ pcTS = "save"
    /\ sequential_time_json' = JsonFile(sequential_time_dict(ts_nested, ts_simple))
    /\ pcTS' = "saved"
    /\ UNCHANGED <<ts_nested, ts_simple, sequential_results_json, parallel_results_json,
                   vAn, vPar, vSeq, OtherThanPipeline>>

\* parallel-test-script.py is run once the file is as it will be read
ParallelLoadsTseq == pcTS \in {"given", "saved"} /\ LoadTseq

\* analysis-script.py is run after parallel-test-script.py
AnalysisAfterParallel == pcPar = "done" /\ AnalysisMain

NextTS ==
    \/ MeasureSequentialTime
    \/ MeasureSimpleSequentialTime
    \/ SaveSequentialTime
    \/ ParallelLoadsTseq
    \/ RunConfiguration
    \/ ReturnResults
    \/ AnalysisAfterParallel

SpecTseqPipeline == InitTS /\ [][NextTS]_vars

\* the Tseq of the report
ReportTseq == sequential_data["avg_time"]

\* the one Tseq that every saved result holds as tseq_used
SpeedupTseq(t) ==
    /\ parallel_results_json.data # <<>>
    /\ \A i \in 1..Len(parallel_results_json.data) :
          parallel_results_json.data[i].tseq_used = t

\* the contents for which the two scripts read the same entry
SameEntryRead(file) ==
    /\ Loadable(file)
    /\ \/ "avg_time" \in DOMAIN file.data
       \/ "avg_time_simple" \in DOMAIN file.data
       \/ "avg_time_nested" \notin DOMAIN file.data /\ HasValue(file.data, "tseq_simple")

\* C27 (as stated): for every content of sequential_time.json the Tseq of the
\* report equals the Tseq the speedups were computed with
C27_SameTseqForEveryContent ==
    pcAn = "done" =>
        /\ "avg_time" \in DOMAIN sequential_data
        /\ SpeedupTseq(ReportTseq)

\* C27 (what the code ensures): the two are equal when the file has avg_time
\* or avg_time_simple, or has tseq_simple.value and no avg_time_nested; for
\* the file written by sequential-test-script both equal the average of the
\* five simple executions
C27_SameTseqWhenSameEntryRead ==
    pcAn = "done" =>
        /\ SpeedupTseq(tseq)
        /\ SameEntryRead(sequential_time_json) =>
              /\ "avg_time" \in DOMAIN sequential_data
              /\ ReportTseq = tseq
        /\ pcTS = "saved" =>
              /\ SameEntryRead(sequential_time_json)
              /\ ReportTseq = ts_simple.avg
              /\ ReportTseq * 5 = Sum(ts_simple.times)
              /\ report.tseq = ReportTseq

\* C27: the file written by sequential-test-script, the nested average
\* differing from the simple one
C27_Witness ==
    /\ pcAn = "done"
    /\ pcTS = "saved"
    /\ ts_nested.avg # ts_simple.avg
    /\ ts_simple.times[1] # ts_simple.times[2]
    /\ ReportTseq = tseq
    /\ SpeedupTseq(tseq)

\* C27: a file with avg_time_nested only: the speedups use it, the report
\* says 0
C27_WitnessNestedOnly ==
    /\ pcAn = "done"
    /\ pcTS = "given"
    /\ Loadable(sequential_time_json)
    /\ DOMAIN sequential_time_json.data = {"avg_time_nested"}
    /\ SpeedupTseq(13)
    /\ report.tseq = 0

\* C27: no sequential_time.json: the speedups use 10, the report says 0
C27_WitnessMissing ==
    /\ pcAn = "done"
    /\ sequential_time_json = MissingFile
    /\ SpeedupTseq(DefaultTseq)
    /\ ReportTseq = 0

(***************************************************************************)
(* lab5_final: the output of updated-test-generation.py as read by         *)
(* coverage-comparison.py analyze_pynguin_results and pynguin-analysis.py  *)
(* parse_output_file.  output.txt is the sequence of the lines printed.    *)
(***************************************************************************)
\* output_content.count(text) and len(pattern.findall(output_content))
count_lines(output, text) == Len(SelectSeq(output, LAMBDA l : l.line = text))

\* coverage-comparison.py lines 327-337
analyze_pynguin_results(output) ==
    LET successful_count == count_lines(output, "Successfully generated tests for")
        processing_count == count_lines(output, "Processing file")
    IN  IF processing_count = 0
        THEN [returned |-> TRUE, success_rate |-> <<0, 1>>, failure_rate |-> <<0, 1>>]
        ELSE [returned |-> FALSE,
              success_rate |-> Quotient(successful_count, processing_count),
              failure_rate |-> Quotient(processing_count - successful_count,
                                        processing_count)]

parse_output_file_Swapped(output) ==
    LET total_match == SelectSeq(output, LAMBDA l : l.line = "Test generation complete")
        total_success == IF total_match # <<>> THEN to_number(total_match[1].successes)
                         ELSE count_lines(output, "Successfully generated tests for")
        total_files_ == IF total_match # <<>> THEN to_number(total_match[1].total)
                        ELSE count_lines(output, "Processing file")
    IN  [total_files |-> total_files_,
         successful_files |-> total_success,
         failed_files |-> total_success - total_files_,
         success_rate |-> IF total_files_ > 0 THEN Quotient(total_success, total_files_)
                          ELSE <<0, 1>>]

\* pynguin-analysis.py lines 18-47
parse_output_file(output) ==
    LET total_match == SelectSeq(output, LAMBDA l : l.line = "Test generation complete")
        total_success == IF total_match # <<>> THEN to_number(total_match[1].successes)
                         ELSE count_lines(output, "Successfully generated tests for")
        total_files_ == IF total_match # <<>> THEN to_number(total_match[1].total)
                        ELSE count_lines(output, "Processing file")
    IN  [total_files |-> total_files_,
         successful_files |-> total_success,
         failed_files |-> total_files_ - total_success,
         success_rate |-> IF total_files_ > 0 THEN Quotient(total_success, total_files_)
                          ELSE <<0, 1>>]

\* 0 <= n/d <= 1
BetweenZeroAndOne(q) == 0 <= q[1] /\ q[1] <= q[2] /\ q[2] > 0

\* C28: at every point of a run of main the "Successfully generated tests
\* for" lines printed are at most the "Processing file" lines printed and
\* pynguin_successes is their number; at the end pynguin_successes is at most
\* total_files; the rates that analyze_pynguin_results and parse_output_file
\* compute from the output so far lie between 0 and 1 and failed_files is
\* not negative
C28_SuccessesAtMostProcessed ==
    LET successes == count_lines(tg_stdout, "Successfully generated tests for")
        processing == count_lines(tg_stdout, "Processing file")
        a == analyze_pynguin_results(tg_stdout)
        p == parse_output_file(tg_stdout)
    IN  /\ successes <= processing
        /\ pynguin_successes = successes
        /\ (pcTG = "exited" /\ exit_status = 0) =>
              /\ pynguin_successes <= total_files
              /\ p.total_files = total_files
              /\ p.successful_files = pynguin_successes
        /\ ~a.returned =>
              /\ BetweenZeroAndOne(a.success_rate)
              /\ BetweenZeroAndOne(a.failure_rate)
        /\ BetweenZeroAndOne(p.success_rate)
        /\ p.failed_files >= 0

\* C28: a finished run over two files, one of them skipped and tests
\* generated for the other: 1 of 1 processed, 1 of 2 in total
C28_Witness ==
    /\ pcTG = "exited"
    /\ exit_status = 0
    /\ total_files = 2
    /\ pynguin_successes = 1
    /\ count_lines(tg_stdout, "Processing file") = 1
    /\ analyze_pynguin_results(tg_stdout).success_rate = <<1, 1>>
    /\ parse_output_file(tg_stdout).success_rate = <<1, 2>>
    /\ parse_output_file(tg_stdout).failed_files = 1

\* C28: two files processed, tests generated for the first, the second not
\* yet finished
C28_WitnessMidRun ==
    /\ pcTG = "poll"
    /\ count_lines(tg_stdout, "Processing file") = 2
    /\ count_lines(tg_stdout, "Successfully generated tests for") = 1
    /\ parse_output_file(tg_stdout).failed_files = 1

====
